---- MODULE Spec2Model ----
(***************************************************************************)
(* Facsimile: the collector-backed allocation operators of                 *)
(* Collectable.cpp (global operator new/delete, Collectable::operator      *)
(* new/delete) and the finalizer protocol of Facsimile::Collectable        *)
(* (initialize, cleanup, ~Collectable), together with the test classes     *)
(* that drive them (Heap, NewHandler, MyCollectable).                      *)
(*                                                                         *)
(* The Boehm-Demers-Weiser collector is an external library.  It is        *)
(* modelled by the GC_* operators below: a heap of blocks, a maximum heap  *)
(* size, a finalizer table keyed on block base addresses, and collection   *)
(* of collectable blocks that no root references.                          *)
(***************************************************************************)
EXTENDS Integers, Sequences, FiniteSets, TLC

(***************************************************************************)
(* Bounds of the model.                                                    *)
(***************************************************************************)
MaxAddr == 2
MaxCalls == 2
BlockSpan == 4

Threads == {1, 2}
Addr == 1..MaxAddr

NULL == 0
NoHandler == "null"
NoReg == [fn |-> "null", cd |-> 0]

(***************************************************************************)
(* Test classes: Heap::heapSize, in units of Heap::FIRST_HEAP_SIZE; the    *)
(* last entry, 0, means "no limit" to GC_set_max_heap_size.  The request   *)
(* sizes are 0 and those of the two smallest test objects.                 *)
(***************************************************************************)
heapSize == <<1, 3, 9, 27, 0>>

ReqSizes == {0, 1, 3}

Handlers == {"throwingHandler", "nonThrowingHandler"}

HandlerSlot == Handlers \cup {NoHandler}

(***************************************************************************)
(* Classes derived from Facsimile::Collectable.  MyCollectable is the test *)
(* class (its destructor counts finalizations).  Enclosing is a            *)
(* MyCollectable that holds, by value, a member of another class derived   *)
(* from Collectable with a trivial destructor (as                          *)
(* Heap::FirstCollectableObject).                                          *)
(***************************************************************************)
Classes == {"MyCollectable", "Enclosing"}

\* Classes not derived from Collectable, allocated by the global operators:
\* Aggregate holds, by value, a member of a class derived from Collectable;
\* MyUncollectableWithCollectablePtr holds a pointer to a MyCollectable.
GlobalClasses == {"Aggregate", "MyUncollectableWithCollectablePtr"}

\* Offset of the Collectable sub-object of the complete object within its
\* allocation, and of the Collectable sub-object of Enclosing's member.
SubOff(cls, sub) ==
    IF sub = "member" THEN 2
    ELSE IF cls = "MyCollectable" THEN 1 ELSE 0

\* sizeof of the class of a new-expression, in heap units: what the
\* new-expression passes to Collectable::operator new.
SizeOf(cls) ==
    IF cls = "Enclosing" THEN 3 ELSE 1

(***************************************************************************)
(* Allocation entry points of Collectable.cpp.                             *)
(***************************************************************************)
GlobalNewOps == {"new", "new_nothrow", "new_array", "new_array_nothrow"}

ClassNewOps == {"Collectable_new", "Collectable_new_nothrow"}

NewOps == GlobalNewOps \cup ClassNewOps

NoThrowOps == {"new_nothrow", "new_array_nothrow", "Collectable_new_nothrow"}

VARIABLES
    NDEBUG,            \* build flag: assert () compiled out
    heap,              \* collector heap: the block at each address
    maxHeapSize,       \* collector: GC_set_max_heap_size value (0 = unlimited)
    finalizers,        \* collector: finalizer registered for each block base
    heapSizeIndex,     \* Heap::heapSizeIndex
    newHandler,        \* the process-wide std::new_handler slot
    newHandlerSeen,    \* NewHandler::newHandlerSeen
    finalizationCount, \* MyCollectable::finalizationCount
    obj,               \* the Collectable-derived instance in each block
    frame,             \* per thread: position and locals of the running call
    finalizer,         \* the collector's call of cleanup (), while it runs
    held,              \* per thread: non-null pointers held in its variables
    aborted,           \* the process was aborted by a failed assert ()
    calls,             \* number of new-expressions started (bounds the model)
    constructed,       \* number of instances whose constructor has completed
    isConstructionValid, \* Singleton <T>::isConstructionValid
    isInitialized,     \* Singleton <T>::isInitialized, the boost::once_flag
    staticMutex,       \* Singleton <T>::staticMutex: owner and lock count
    instance,          \* Singleton <T>::instance
    sframe,            \* each thread's call of getInstance or constructor
    made,              \* instances of T whose construction completed
    handlerObjects     \* the NewHandler instances in scope, innermost last

SingletonVars ==
    <<isConstructionValid, isInitialized, staticMutex, instance, sframe, made>>

vars == <<NDEBUG, heap, maxHeapSize, finalizers, heapSizeIndex, newHandler,
          newHandlerSeen, finalizationCount, obj, frame, finalizer, held,
          aborted, calls, constructed, SingletonVars, handlerObjects>>

(***************************************************************************)
(* The collector (Boehm-Demers-Weiser), as Collectable.cpp consumes it.    *)
(* A pointer is a number: block a spans a * BlockSpan .. a * BlockSpan +   *)
(* BlockSpan - 1; smaller numbers are addresses outside the collector's    *)
(* heap (the stack).                                                       *)
(***************************************************************************)
FreeBlock == [kind |-> "free", size |-> 0]

BlockOf(p) == p \div BlockSpan

RECURSIVE UsedUpTo(_, _)
UsedUpTo(h, n) ==
    IF n = 0 THEN 0
    ELSE UsedUpTo(h, n - 1)
         + (IF h[n].kind = "free" THEN 0 ELSE h[n].size + 1)

\* Heap units in use: every block costs its size plus one unit of header
\* ("the memory allocated may be larger than the number of units requested").
Used(h) == UsedUpTo(h, MaxAddr)

FreeAddrs(h) == {a \in Addr : h[a].kind = "free"}

MinOf(S) == CHOOSE a \in S : \A b \in S : a <= b

\* GC_MALLOC (kind "col") and GC_MALLOC_UNCOLLECTABLE (kind "unc"): a new
\* block, or 0 when the request does not fit under the maximum heap size.
GC_malloc(h, max, size, kind) ==
    IF (max = 0 \/ Used(h) + size + 1 <= max) /\ FreeAddrs(h) # {}
    THEN LET a == MinOf(FreeAddrs(h))
         IN  [ptr |-> a * BlockSpan,
              heap |-> [h EXCEPT ![a] = [kind |-> kind, size |-> size]]]
    ELSE [ptr |-> NULL, heap |-> h]

\* GC_FREE: releases the block; a null pointer is accepted.
GC_free(h, p) == IF p = NULL THEN h ELSE [h EXCEPT ![BlockOf(p)] = FreeBlock]

\* GC_base: the base address of the heap block that contains p, or 0.
GC_base(h, p) ==
    IF BlockOf(p) \in Addr /\ h[BlockOf(p)].kind # "free"
    THEN BlockOf(p) * BlockSpan
    ELSE NULL

\* A registration that a null callback does not remove.
GC_register_finalizer_NoRemove(fz, base, fn, cd) ==
    IF fn = "null" THEN fz
    ELSE [fz EXCEPT ![BlockOf(base)] = [fn |-> fn, cd |-> cd]]

\* GC_REGISTER_FINALIZER_IGNORE_SELF (base, fn, cd, 0, 0): replaces whatever
\* is registered for base; fn = 0 removes the registration.
GC_register_finalizer(fz, base, fn, cd) ==
    [fz EXCEPT ![BlockOf(base)] =
        IF fn = "null" THEN NoReg ELSE [fn |-> fn, cd |-> cd]]

(***************************************************************************)
(* The state the operations read and write, as one record.                 *)
(***************************************************************************)
World ==
    [NDEBUG |-> NDEBUG, heap |-> heap, maxHeapSize |-> maxHeapSize,
     finalizers |-> finalizers, heapSizeIndex |-> heapSizeIndex,
     newHandler |-> newHandler, newHandlerSeen |-> newHandlerSeen,
     finalizationCount |-> finalizationCount, obj |-> obj,
     aborted |-> aborted, constructed |-> constructed]

\* cls: class of the instance; st: "raw" (allocated, constructor running),
\* "live" (constructor complete), "dying" (destructor chain running), "dead"
\* (chain complete); del: a delete-expression was applied to it; runs,
\* mruns: destructor chains run on the instance and on its member; ptr:
\* MyUncollectableWithCollectablePtr::someCollectableObject.
NoObject ==
    [cls |-> "none", st |-> "none", del |-> FALSE, runs |-> 0, mruns |-> 0,
     ptr |-> NULL]

IdleFrame ==
    [pc |-> "idle", op |-> "none", size |-> 0, cls |-> "none",
     memPtr |-> NULL, handler |-> NoHandler, log |-> <<>>,
     outcome |-> "none", thrower |-> "none", var |-> NULL,
     this |-> NULL, sub |-> "none", arg |-> NULL]

Ev(e, h) == [e |-> e, h |-> h]

\* Facsimile::Singleton <T>: the initial values of its static members, and
\* a thread that is in none of its functions.
BOOST_ONCE_INIT == "init"

Unlocked == [owner |-> 0, count |-> 0]

IdleCall ==
    [pc |-> "idle", op |-> "none", memPtr |-> NULL, outcome |-> "none",
     ret |-> NULL]

(***************************************************************************)
(* Test handlers (test/Facsimile_Collectable.cpp).                         *)
(***************************************************************************)
\* An updateHeapSize that advances the index and leaves the collector's
\* limit alone.
updateHeapSize_NoSet(w) == [w EXCEPT !.heapSizeIndex = w.heapSizeIndex + 1]

\* Heap::updateHeapSize: ++heapSizeIndex; GC_set_max_heap_size (heapSize [..])
updateHeapSize(w) ==
    [w EXCEPT !.heapSizeIndex = w.heapSizeIndex + 1,
              !.maxHeapSize = heapSize[w.heapSizeIndex + 2]]

\* assert (!newHandlerSeen) fails: only when assertions are compiled in.
HandlerAsserts(w) == ~w.NDEBUG /\ w.newHandlerSeen

\* NewHandler::throwingHandler
throwingHandler(w) ==
    IF HandlerAsserts(w)
    THEN [w |-> [w EXCEPT !.aborted = TRUE], exc |-> "abort"]
    ELSE [w |-> [w EXCEPT !.newHandlerSeen = TRUE], exc |-> "bad_alloc"]

\* NewHandler::nonThrowingHandler
nonThrowingHandler(w) ==
    IF HandlerAsserts(w)
    THEN [w |-> [w EXCEPT !.aborted = TRUE], exc |-> "abort"]
    ELSE [w |-> updateHeapSize([w EXCEPT !.newHandlerSeen = TRUE]),
          exc |-> "none"]

\* A call that reaches nonThrowingHandler whatever pointer was read.
HandlerCall_AlwaysNonThrowing(h, w) == nonThrowingHandler(w)

\* Handlers a program may install besides the two of the test suite.  The
\* operators call whatever function the pointer names: one that returns
\* without making memory available, one that removes itself with
\* std::set_new_handler (0), one that installs another handler.
idleHandler(w) == [w |-> w, exc |-> "none"]

removingHandler(w) ==
    [w |-> [w EXCEPT !.newHandler = NoHandler], exc |-> "none"]

switchingHandler(w) ==
    [w |-> [w EXCEPT !.newHandler = "throwingHandler"], exc |-> "none"]

ExtraHandlers == {"idleHandler", "removingHandler", "switchingHandler"}

\* A call after which every handler returns having done nothing.
HandlerCall_NeverSupplies(h, w) == [w |-> w, exc |-> "none"]

\* handler (): the call through the std::new_handler pointer
HandlerCall(h, w) ==
    CASE h = "throwingHandler" -> throwingHandler(w)
      [] h = "idleHandler" -> idleHandler(w)
      [] h = "removingHandler" -> removingHandler(w)
      [] h = "switchingHandler" -> switchingHandler(w)
      [] OTHER -> nonThrowingHandler(w)

\* heapSize has five entries: the model stops before updateHeapSize would
\* read past the last one.
HandlerInRange(h, w) ==
    h = "nonThrowingHandler" /\ ~HandlerAsserts(w)
        => w.heapSizeIndex + 2 <= Len(heapSize)

(***************************************************************************)
(* The allocation operators.                                               *)
(***************************************************************************)
\* The operator whose retry loop runs: the array forms and the non-throwing
\* forms return what the single throwing form returns.
InnerOp(op) ==
    CASE op = "new_array" -> "new"
      [] op = "new_nothrow" -> "new"
      [] op = "new_array_nothrow" -> "new"
      [] op = "Collectable_new_nothrow" -> "Collectable_new"
      [] OTHER -> op

\* Operators that all take their memory from GC_MALLOC_UNCOLLECTABLE.
Region_AlwaysUncollectable(op) == "unc"

\* GC_MALLOC_UNCOLLECTABLE in ::operator new, GC_MALLOC in
\* Collectable::operator new.
Region(op) == IF InnerOp(op) = "new" THEN "unc" ELSE "col"

\* try { return operator new (size); } catch (std::bad_alloc) { return 0; }
CatchesBadAlloc(op) == op \in NoThrowOps

\* Non-throwing forms without their catch clause.
Unwind_Propagates(f, who) ==
    [f EXCEPT !.pc = "done", !.outcome = "bad_alloc", !.thrower = who]

\* A retry loop that reports failure the way malloc does, with "return 0".
Unwind_ReturnsNull(f, who) ==
    [f EXCEPT !.pc = "done", !.outcome = "returned", !.memPtr = NULL,
              !.var = NULL, !.thrower = who]

\* std::bad_alloc leaves the retry loop: it propagates to the caller, or the
\* non-throwing form catches it and returns 0, which the new-expression
\* assigns without running a constructor.
Unwind(f, who) ==
    IF CatchesBadAlloc(f.op)
    THEN [f EXCEPT !.pc = "done", !.outcome = "returned", !.memPtr = NULL,
                   !.var = NULL, !.thrower = who]
    ELSE [f EXCEPT !.pc = "done", !.outcome = "bad_alloc", !.thrower = who]

\* The operator returns memPtr.  For the global operators the new-expression
\* assigns it; for a class derived from Collectable the constructors run
\* first on the new block, as do those of the classes the model allocates
\* with the global operators.
ReturnPtr(f, w, r) ==
    CASE f.cls \in Classes ->
            [f |-> [f EXCEPT !.pc = "ctor_base", !.memPtr = r.ptr],
             w |-> [w EXCEPT !.heap = r.heap,
                             !.obj[BlockOf(r.ptr)] =
                                 [NoObject EXCEPT !.cls = f.cls, !.st = "raw"]]]
      [] f.cls \in GlobalClasses ->
            [f |-> [f EXCEPT !.pc = "ctor_member", !.memPtr = r.ptr],
             w |-> [w EXCEPT !.heap = r.heap,
                             !.obj[BlockOf(r.ptr)] =
                                 [NoObject EXCEPT !.cls = f.cls, !.st = "raw"]]]
      [] OTHER ->
            [f |-> [f EXCEPT !.pc = "done", !.outcome = "returned",
                             !.memPtr = r.ptr, !.var = r.ptr],
             w |-> [w EXCEPT !.heap = r.heap,
                             !.obj[BlockOf(r.ptr)] = NoObject]]

\* A retry loop that throws at the first refusal, handler or not.
NewStep_SkipHandler(f, w) ==
    CASE f.pc = "alloc" ->
            LET r == GC_malloc(w.heap, w.maxHeapSize, f.size, Region(f.op))
                g == [f EXCEPT !.log = Append(f.log, Ev("req", NoHandler))]
            IN  IF r.ptr # NULL
                THEN ReturnPtr(g, w, r)
                ELSE [f |-> [g EXCEPT !.pc = "read"], w |-> w]
      [] OTHER ->
            LET h == w.newHandler
                g == [f EXCEPT !.handler = h,
                               !.log = Append(f.log, Ev("ref", h))]
            IN  [f |-> Unwind(g, "operator"),
                 w |-> [w EXCEPT !.newHandler = NoHandler]]

\* A retry loop that asks the collector a second time before it gives up
\* for want of a handler.
NewStep_RetryOnce(f, w) ==
    CASE f.pc = "alloc" ->
            LET r == GC_malloc(w.heap, w.maxHeapSize, f.size, Region(f.op))
                g == [f EXCEPT !.log = Append(f.log, Ev("req", NoHandler))]
            IN  IF r.ptr # NULL
                THEN ReturnPtr(g, w, r)
                ELSE IF Len(f.log) = 0 /\ w.newHandler = NoHandler
                     THEN [f |-> g, w |-> w]
                     ELSE [f |-> [g EXCEPT !.pc = "read"], w |-> w]
      [] f.pc = "read" ->
            LET h == w.newHandler
                g == [f EXCEPT !.handler = h,
                               !.log = Append(f.log, Ev("ref", h))]
                v == [w EXCEPT !.newHandler = NoHandler]
            IN  IF h = NoHandler
                THEN [f |-> Unwind(g, "operator"), w |-> v]
                ELSE [f |-> [g EXCEPT !.pc = "restore"], w |-> v]
      [] f.pc = "restore" ->
            [f |-> [f EXCEPT !.pc = "call"],
             w |-> [w EXCEPT !.newHandler = f.handler]]
      [] f.pc = "call" ->
            LET r == HandlerCall(f.handler, w)
                g == [f EXCEPT !.log = Append(f.log, Ev("inv", f.handler))]
            IN  CASE r.exc = "none" -> [f |-> [g EXCEPT !.pc = "alloc"], w |-> r.w]
                  [] r.exc = "bad_alloc" -> [f |-> Unwind(g, "handler"), w |-> r.w]
                  [] OTHER -> [f |-> [g EXCEPT !.pc = "aborted"], w |-> r.w]

\* A retry loop that refuses a request of size 0 without asking the
\* collector.
NewStep_RejectsZero(f, w) ==
    CASE f.pc = "alloc" /\ f.size = 0 ->
            [f |-> Unwind(f, "operator"), w |-> w]
      [] f.pc = "alloc" ->
            LET r == GC_malloc(w.heap, w.maxHeapSize, f.size, Region(f.op))
                g == [f EXCEPT !.log = Append(f.log, Ev("req", NoHandler))]
            IN  IF r.ptr # NULL
                THEN ReturnPtr(g, w, r)
                ELSE [f |-> [g EXCEPT !.pc = "read"], w |-> w]
      [] f.pc = "read" ->
            LET h == w.newHandler
                g == [f EXCEPT !.handler = h,
                               !.log = Append(f.log, Ev("ref", h))]
                v == [w EXCEPT !.newHandler = NoHandler]
            IN  IF h = NoHandler
                THEN [f |-> Unwind(g, "operator"), w |-> v]
                ELSE [f |-> [g EXCEPT !.pc = "restore"], w |-> v]
      [] f.pc = "restore" ->
            [f |-> [f EXCEPT !.pc = "call"],
             w |-> [w EXCEPT !.newHandler = f.handler]]
      [] f.pc = "call" ->
            LET r == HandlerCall(f.handler, w)
                g == [f EXCEPT !.log = Append(f.log, Ev("inv", f.handler))]
            IN  CASE r.exc = "none" -> [f |-> [g EXCEPT !.pc = "alloc"], w |-> r.w]
                  [] r.exc = "bad_alloc" -> [f |-> Unwind(g, "handler"), w |-> r.w]
                  [] OTHER -> [f |-> [g EXCEPT !.pc = "aborted"], w |-> r.w]

\* A retry loop that calls whatever handler the slot names at the time of
\* the call.
NewStep_CallsSlot(f, w) ==
    CASE f.pc = "alloc" ->
            LET r == GC_malloc(w.heap, w.maxHeapSize, f.size, Region(f.op))
                g == [f EXCEPT !.log = Append(f.log, Ev("req", NoHandler))]
            IN  IF r.ptr # NULL
                THEN ReturnPtr(g, w, r)
                ELSE [f |-> [g EXCEPT !.pc = "read"], w |-> w]
      [] f.pc = "read" ->
            \* std::new_handler handler = std::set_new_handler (0);
            LET h == w.newHandler
                g == [f EXCEPT !.handler = h,
                               !.log = Append(f.log, Ev("ref", h))]
                v == [w EXCEPT !.newHandler = NoHandler]
            IN  IF h = NoHandler
                THEN [f |-> Unwind(g, "operator"), w |-> v]
                ELSE [f |-> [g EXCEPT !.pc = "restore"], w |-> v]
      [] f.pc = "restore" ->
            \* std::set_new_handler (handler);
            [f |-> [f EXCEPT !.pc = "call"],
             w |-> [w EXCEPT !.newHandler = f.handler]]
      [] f.pc = "call" ->
            \* handler ();
            LET r == HandlerCall(w.newHandler, w)
                g == [f EXCEPT !.log = Append(f.log, Ev("inv", w.newHandler))]
            IN  CASE r.exc = "none" -> [f |-> [g EXCEPT !.pc = "alloc"], w |-> r.w]
                  [] r.exc = "bad_alloc" -> [f |-> Unwind(g, "handler"), w |-> r.w]
                  [] OTHER -> [f |-> [g EXCEPT !.pc = "aborted"], w |-> r.w]

\* A retry loop that leaves the slot empty when it calls the handler.
NewStep_NoRestore(f, w) ==
    CASE f.pc = "alloc" ->
            LET r == GC_malloc(w.heap, w.maxHeapSize, f.size, Region(f.op))
                g == [f EXCEPT !.log = Append(f.log, Ev("req", NoHandler))]
            IN  IF r.ptr # NULL
                THEN ReturnPtr(g, w, r)
                ELSE [f |-> [g EXCEPT !.pc = "read"], w |-> w]
      [] f.pc = "read" ->
            \* std::new_handler handler = std::set_new_handler (0);
            LET h == w.newHandler
                g == [f EXCEPT !.handler = h,
                               !.log = Append(f.log, Ev("ref", h))]
                v == [w EXCEPT !.newHandler = NoHandler]
            IN  IF h = NoHandler
                THEN [f |-> Unwind(g, "operator"), w |-> v]
                ELSE [f |-> [g EXCEPT !.pc = "restore"], w |-> v]
      [] f.pc = "restore" ->
            \* std::set_new_handler (handler);
            [f |-> [f EXCEPT !.pc = "call"], w |-> w]
      [] f.pc = "call" ->
            \* handler ();
            LET r == HandlerCall(f.handler, w)
                g == [f EXCEPT !.log = Append(f.log, Ev("inv", f.handler))]
            IN  CASE r.exc = "none" -> [f |-> [g EXCEPT !.pc = "alloc"], w |-> r.w]
                  [] r.exc = "bad_alloc" -> [f |-> Unwind(g, "handler"), w |-> r.w]
                  [] OTHER -> [f |-> [g EXCEPT !.pc = "aborted"], w |-> r.w]

\* A retry loop that puts the handler back once the handler has returned.
NewStep_RestoreAfterReturn(f, w) ==
    CASE f.pc = "alloc" ->
            LET r == GC_malloc(w.heap, w.maxHeapSize, f.size, Region(f.op))
                g == [f EXCEPT !.log = Append(f.log, Ev("req", NoHandler))]
            IN  IF r.ptr # NULL
                THEN ReturnPtr(g, w, r)
                ELSE [f |-> [g EXCEPT !.pc = "read"], w |-> w]
      [] f.pc = "read" ->
            \* std::new_handler handler = std::set_new_handler (0);
            LET h == w.newHandler
                g == [f EXCEPT !.handler = h,
                               !.log = Append(f.log, Ev("ref", h))]
                v == [w EXCEPT !.newHandler = NoHandler]
            IN  IF h = NoHandler
                THEN [f |-> Unwind(g, "operator"), w |-> v]
                ELSE [f |-> [g EXCEPT !.pc = "restore"], w |-> v]
      [] f.pc = "restore" ->
            \* std::set_new_handler (handler);
            [f |-> [f EXCEPT !.pc = "call"], w |-> w]
      [] f.pc = "call" ->
            \* handler ();
            LET r == HandlerCall(f.handler, w)
                g == [f EXCEPT !.log = Append(f.log, Ev("inv", f.handler))]
            IN  CASE r.exc = "none" ->
                        [f |-> [g EXCEPT !.pc = "alloc"],
                         w |-> [r.w EXCEPT !.newHandler = f.handler]]
                  [] r.exc = "bad_alloc" -> [f |-> Unwind(g, "handler"), w |-> r.w]
                  [] OTHER -> [f |-> [g EXCEPT !.pc = "aborted"], w |-> r.w]

\* One step of the retry loop "for (; ; )" of operator new (std::size_t) and
\* of Collectable::operator new (size_t).
NewStep(f, w) ==
    CASE f.pc = "alloc" ->
            LET r == GC_malloc(w.heap, w.maxHeapSize, f.size, Region(f.op))
                g == [f EXCEPT !.log = Append(f.log, Ev("req", NoHandler))]
            IN  IF r.ptr # NULL
                THEN ReturnPtr(g, w, r)
                ELSE [f |-> [g EXCEPT !.pc = "read"], w |-> w]
      [] f.pc = "read" ->
            \* std::new_handler handler = std::set_new_handler (0);
            LET h == w.newHandler
                g == [f EXCEPT !.handler = h,
                               !.log = Append(f.log, Ev("ref", h))]
                v == [w EXCEPT !.newHandler = NoHandler]
            IN  IF h = NoHandler
                THEN [f |-> Unwind(g, "operator"), w |-> v]
                ELSE [f |-> [g EXCEPT !.pc = "restore"], w |-> v]
      [] f.pc = "restore" ->
            \* std::set_new_handler (handler);
            [f |-> [f EXCEPT !.pc = "call"],
             w |-> [w EXCEPT !.newHandler = f.handler]]
      [] f.pc = "call" ->
            \* handler ();
            LET r == HandlerCall(f.handler, w)
                g == [f EXCEPT !.log = Append(f.log, Ev("inv", f.handler))]
            IN  CASE r.exc = "none" -> [f |-> [g EXCEPT !.pc = "alloc"], w |-> r.w]
                  [] r.exc = "bad_alloc" -> [f |-> Unwind(g, "handler"), w |-> r.w]
                  [] OTHER -> [f |-> [g EXCEPT !.pc = "aborted"], w |-> r.w]

InNew(f) == f.pc \in {"alloc", "read", "restore", "call"}

\* The deallocation operators: four global forms and the two single-object
\* forms of Collectable.
GlobalDeleteOps ==
    {"delete", "delete_nothrow", "delete_array", "delete_array_nothrow"}

ClassDeleteOps == {"Collectable_delete", "Collectable_delete_nothrow"}

DeleteOps == GlobalDeleteOps \cup ClassDeleteOps

\* operator delete (void* memPtr): GC_FREE (memPtr), "whether NULL or not".
operator_delete(memPtr, w) == [w EXCEPT !.heap = GC_free(@, memPtr)]

\* Deallocation whose array forms release nothing.
DeleteOp_ArrayLeaks(op, memPtr, w) ==
    IF op \in {"delete_array", "delete_array_nothrow"}
    THEN w
    ELSE operator_delete(memPtr, w)

\* Deallocation that treats a null pointer as a fatal error.
DeleteOp_RejectsNull(op, memPtr, w) ==
    IF memPtr = NULL
    THEN [w EXCEPT !.aborted = TRUE]
    ELSE operator_delete(memPtr, w)

\* Every other deallocation operator is ::operator delete (memPtr).
DeleteOp(op, memPtr, w) ==
    IF op = "delete"
    THEN operator_delete(memPtr, w)
    ELSE operator_delete(memPtr, w)

\* The array operators of Collectable.
ClassArrayOps ==
    {"Collectable_new_array", "Collectable_new_array_nothrow",
     "Collectable_delete_array", "Collectable_delete_array_nothrow"}

\* What the body of an array operator of Collectable throws.
Thrown(op) ==
    IF op \in {"Collectable_new_array", "Collectable_new_array_nothrow"}
    THEN "ArrayNewNotSupportedException"
    ELSE "ArrayDeleteNotSupportedException"

\* The exception specification of the operator: throw (std::bad_alloc) for
\* the throwing array new, throw () for the other three.
ExceptionSpec(op) ==
    IF op = "Collectable_new_array" THEN {"bad_alloc"} ELSE {}

\* A call of an array operator of Collectable: the body throws; an exception
\* that the exception specification does not list does not leave the
\* function, std::unexpected () is called instead and ends the process in
\* std::terminate ().
ArrayOp(f, w) ==
    IF Thrown(f.op) \in ExceptionSpec(f.op)
    THEN [f |-> [f EXCEPT !.pc = "done", !.thrower = f.op,
                          !.outcome = Thrown(f.op)],
          w |-> w]
    ELSE [f |-> [f EXCEPT !.pc = "done", !.thrower = f.op,
                          !.outcome = "terminate"],
          w |-> [w EXCEPT !.aborted = TRUE]]

(***************************************************************************)
(* Facsimile::Collectable: construction, finalization, destruction.        *)
(***************************************************************************)
\* The width of a pointer and of std::ptrdiff_t, in bits.
PtrBits == 8

\* reinterpret_cast <GC_PTR> (offset): the bits of the std::ptrdiff_t, read
\* as a pointer.
OffsetToPtr(offset) == offset % (2 ^ PtrBits)

\* A conversion that keeps the lowest bit only.
PtrToOffset_Narrow(ptr) == ptr % 2

\* reinterpret_cast <std::ptrdiff_t> (offset): the bits of the pointer, read
\* as a signed number.
PtrToOffset(ptr) ==
    IF ptr >= 2 ^ (PtrBits - 1) THEN ptr - 2 ^ PtrBits ELSE ptr

\* Collectable::initialize, on the sub-object at address this.
initialize(this, w) ==
    LET base == GC_base(w.heap, this)
    IN  IF base # NULL
        THEN LET offset == this - base
             IN  [w EXCEPT !.finalizers =
                     GC_register_finalizer(@, base, "cleanup",
                                           OffsetToPtr(offset))]
        ELSE w

\* A copy constructor that registers nothing, as a compiler-generated one
\* would.
CopyCollectable_NoRegister(this, other, w) == w

\* Collectable::Collectable (const Collectable& other), on the sub-object at
\* address this: initialize (), whatever other is.
CopyCollectable(this, other, w) == initialize(this, w)

\* The constructor of the Collectable part of a sub-object: the default
\* constructor, or the copy constructor when the object is made from other.
Construct(this, other, w) ==
    IF other = NULL THEN initialize(this, w)
    ELSE CopyCollectable(this, other, w)

\* A destructor that leaves the registration in place.
DtorCollectable_NoOp(this, w) == w

\* A destructor that fails when it finds nothing registered for its base.
DtorCollectable_NeedsRegistration(this, w) ==
    LET base == GC_base(w.heap, this)
    IN  IF base = NULL THEN w
        ELSE IF w.finalizers[BlockOf(base)] = NoReg
             THEN [w EXCEPT !.aborted = TRUE]
             ELSE [w EXCEPT !.finalizers =
                      GC_register_finalizer(@, base, "null", 0)]

\* Collectable::~Collectable, on the sub-object at address this.
DtorCollectable(this, w) ==
    LET base == GC_base(w.heap, this)
    IN  IF base # NULL
        THEN [w EXCEPT !.finalizers = GC_register_finalizer(@, base, "null", 0)]
        ELSE w

\* A finalizer that takes the base address for the object.
cleanup_IgnoresOffset(base, offset) == base

\* Collectable::cleanup: the address of the object whose virtual destructor
\* it invokes.
cleanup(base, offset) == base + PtrToOffset(offset)

\* The sub-object of the instance in block a that lives at address this.
SubAt(o, a, this) ==
    IF this = a * BlockSpan + SubOff(o.cls, "self") THEN "self"
    ELSE IF /\ o.cls \in {"Enclosing", "Aggregate"}
            /\ this = a * BlockSpan + SubOff(o.cls, "member")
         THEN "member"
         ELSE "none"

\* The constructor chain of a new-expression after Collectable::operator new:
\* Collectable::Collectable () of the instance, then that of its member.
CtorStep(f, w) ==
    LET a == BlockOf(f.memPtr)
        fin == [f EXCEPT !.pc = "done", !.outcome = "returned",
                         !.var = f.memPtr]
    IN  CASE f.pc = "ctor_base" ->
                LET v == Construct(f.memPtr + SubOff(f.cls, "self"),
                                   f.arg, w)
                IN  IF f.cls = "Enclosing"
                    THEN [f |-> [f EXCEPT !.pc = "ctor_member"], w |-> v]
                    ELSE [f |-> fin,
                          w |-> [v EXCEPT !.obj[a].st = "live",
                                          !.constructed = @ + 1]]
          [] f.pc = "ctor_member" /\ f.cls = "MyUncollectableWithCollectablePtr" ->
                \* someCollectableObject (collectableObject)
                [f |-> fin,
                 w |-> [w EXCEPT !.obj[a].st = "live", !.obj[a].ptr = f.arg]]
          [] f.pc = "ctor_member" ->
                LET v == Construct(f.memPtr + SubOff(f.cls, "member"),
                                   IF f.arg = NULL THEN NULL
                                   ELSE f.arg + SubOff(f.cls, "member"), w)
                IN  [f |-> fin,
                     w |-> [v EXCEPT !.obj[a].st = "live",
                                     !.constructed =
                                         IF f.cls \in Classes THEN @ + 1 ELSE @]]

InCtor(f) == f.pc \in {"ctor_base", "ctor_member"}

\* Where a virtual destructor call on sub-object sub of class cls starts:
\* the member first (Enclosing only), then ~MyCollectable, then ~Collectable.
\* The member's own chain is its ~Collectable alone.  A call through a
\* pointer to no object at all crashes.
DtorEntry(cls, sub) ==
    CASE sub = "member" -> "dtor_member"
      [] sub = "self" /\ cls \in {"Enclosing", "Aggregate"} -> "dtor_member"
      [] sub = "self" /\ cls = "MyUncollectableWithCollectablePtr" -> "op_delete"
      [] sub = "self" -> "dtor_body"
      [] OTHER -> "aborted"

\* One destructor of the chain invoked on the sub-object f.sub at f.this;
\* f.op tells who runs it: "delete" (a delete-expression, which ends in
\* Collectable::operator delete) or "cleanup" (the collector's finalizer).
DtorStep(f, w) ==
    LET a == BlockOf(f.this)
        cls == w.obj[a].cls
        start == f.this - SubOff(cls, f.sub)
        over == IF f.op = "delete"
                THEN [f EXCEPT !.pc = "op_delete"]
                ELSE [f EXCEPT !.pc = "done", !.outcome = "finalized"]
    IN  CASE f.pc = "dtor_member" ->
                \* the member's destructor chain ends in its ~Collectable
                LET v == DtorCollectable(start + SubOff(cls, "member"), w)
                IN  [f |-> CASE f.sub = "self" /\ cls = "Aggregate" ->
                                   [f EXCEPT !.pc = "op_delete"]
                             [] f.sub = "self" -> [f EXCEPT !.pc = "dtor_body"]
                             [] OTHER ->
                                   [f EXCEPT !.pc = "done",
                                             !.outcome = "finalized"],
                     w |-> [v EXCEPT !.obj[a].mruns = @ + 1,
                                     !.obj[a].st =
                                         IF f.sub = "self" /\ cls = "Aggregate"
                                         THEN "dead" ELSE @]]
          [] f.pc = "dtor_body" ->
                \* MyCollectable::~MyCollectable: ++finalizationCount
                [f |-> [f EXCEPT !.pc = "dtor_base"],
                 w |-> [w EXCEPT !.finalizationCount = @ + 1,
                                 !.obj[a].runs = @ + 1]]
          [] f.pc = "dtor_base" ->
                LET v == DtorCollectable(start + SubOff(cls, "self"), w)
                IN  [f |-> over, w |-> [v EXCEPT !.obj[a].st = "dead"]]
          [] f.pc = "op_delete" ->
                \* Collectable::operator delete: ::operator delete (memPtr)
                [f |-> [f EXCEPT !.pc = "done", !.outcome = "deleted"],
                 w |-> [w EXCEPT !.heap = GC_free(@, f.memPtr)]]

InDtor(f) ==
    f.pc \in {"dtor_member", "dtor_body", "dtor_base", "op_delete"}

\* A MyCollectable declared in a block scope: its constructor chain when the
\* declaration is reached, its destructor chain when the scope is left.
\* f.this is the address of the variable, on the stack of the thread.
ScopeStep(f, w) ==
    CASE f.pc = "scope_ctor" ->
            [f |-> [f EXCEPT !.pc = "scope_live",
                             !.log = Append(@, Ev("ctor", NoHandler))],
             w |-> Construct(f.this, f.arg, w)]
      [] f.pc = "scope_live" ->
            \* MyCollectable::~MyCollectable: ++finalizationCount
            [f |-> [f EXCEPT !.pc = "scope_dtor_base",
                             !.log = Append(@, Ev("dtor", NoHandler))],
             w |-> [w EXCEPT !.finalizationCount = @ + 1]]
      [] f.pc = "scope_dtor_base" ->
            [f |-> [f EXCEPT !.pc = "done", !.outcome = "destroyed"],
             w |-> DtorCollectable(f.this, w)]

InScope(f) == f.pc \in {"scope_ctor", "scope_live", "scope_dtor_base"}

(***************************************************************************)
(* Actions.                                                                *)
(***************************************************************************)
SetWorld(w) ==
    /\ heap' = w.heap
    /\ maxHeapSize' = w.maxHeapSize
    /\ finalizers' = w.finalizers
    /\ heapSizeIndex' = w.heapSizeIndex
    /\ newHandler' = w.newHandler
    /\ newHandlerSeen' = w.newHandlerSeen
    /\ finalizationCount' = w.finalizationCount
    /\ obj' = w.obj
    /\ aborted' = w.aborted
    /\ constructed' = w.constructed
    /\ UNCHANGED <<SingletonVars, handlerObjects,
                   NDEBUG, SingletonVars>>

WorldVars ==
    <<NDEBUG, heap, maxHeapSize, finalizers, heapSizeIndex, newHandler,
      newHandlerSeen, finalizationCount, obj, aborted, constructed,
      SingletonVars, handlerObjects>>

\* Pointers the collector finds in the threads' variables and in the running
\* calls, the object its finalizer is working on, and the pointers stored in
\* the memory of the global operators, which it scans until it is freed.
Roots ==
    UNION {held[t] \cup {frame[t].memPtr, frame[t].var, frame[t].arg} :
              t \in Threads}
        \cup {finalizer.this}
        \cup {obj[a].ptr : a \in {b \in Addr : heap[b].kind = "unc"}}

\* A collector that does not scan the memory of the global operators.
Unreachable_StacksOnly(a) ==
    \A p \in UNION {held[t] \cup {frame[t].memPtr, frame[t].var,
                                   frame[t].arg} : t \in Threads}
               \cup {finalizer.this} : BlockOf(p) # a

Unreachable(a) == \A p \in Roots : BlockOf(p) # a

\* The new-expressions of the model: the class operators serve the classes
\* derived from Collectable, with sizeof the class as the size.
ValidNew(op, size, cls) ==
    /\ (op \in ClassNewOps) = (cls \in Classes)
    /\ cls \in Classes \cup GlobalClasses => size = SizeOf(cls)
    /\ cls \in GlobalClasses => op \in {"new", "new_nothrow"}

\* The call of the allocation operator that opens a new-expression.
NewExpr(op, size, cls) ==
    [IdleFrame EXCEPT !.pc = "alloc", !.op = op, !.size = size, !.cls = cls]

\* A thread starts a new-expression: p = new T, p = new (std::nothrow) T,
\* p = new T [n], with T derived from Collectable for the class operators.
CallNew(t, op, size, cls) ==
    /\ ~aborted
    /\ frame[t].pc = "idle"
    /\ calls < MaxCalls
    /\ ValidNew(op, size, cls)
    /\ Cardinality(FreeAddrs(heap))
          > Cardinality({u \in Threads : InNew(frame[u])})
    /\ frame' = [frame EXCEPT ![t] = NewExpr(op, size, cls)]
    /\ calls' = calls + 1
    /\ UNCHANGED <<WorldVars, finalizer, held>>

\* A thread inside an allocation operator takes its next step.
StepNew(t) ==
    /\ ~aborted
    /\ InNew(frame[t])
    /\ frame[t].pc = "call" => HandlerInRange(frame[t].handler, World)
    /\ LET r == NewStep(frame[t], World)
       IN  /\ frame' = [frame EXCEPT ![t] = r.f]
           /\ SetWorld(r.w)
    /\ UNCHANGED <<finalizer, held, calls>>

\* A thread runs the next constructor of its new-expression.
StepCtor(t) ==
    /\ ~aborted
    /\ InCtor(frame[t])
    /\ LET r == CtorStep(frame[t], World)
       IN  /\ frame' = [frame EXCEPT ![t] = r.f]
           /\ SetWorld(r.w)
    /\ UNCHANGED <<finalizer, held, calls>>

\* The expression is over: the caller keeps the pointer, if any.
Return(t) ==
    /\ ~aborted
    /\ frame[t].pc = "done"
    /\ held' = [held EXCEPT ![t] =
                   IF frame[t].var = NULL THEN @ ELSE @ \cup {frame[t].var}]
    /\ frame' = [frame EXCEPT ![t] = IdleFrame]
    /\ UNCHANGED <<WorldVars, finalizer, calls>>

\* delete p on memory of the global operators: operator delete (void*) and
\* the forms that call it.
OperatorDelete(t, p) ==
    /\ ~aborted
    /\ frame[t].pc = "idle"
    /\ p \in held[t]
    /\ heap[BlockOf(p)].kind = "unc"
    /\ heap' = GC_free(heap, p)
    /\ held' = [held EXCEPT ![t] = @ \ {p}]
    /\ UNCHANGED <<SingletonVars, handlerObjects,
                   NDEBUG, maxHeapSize, finalizers, heapSizeIndex, newHandler,
                   newHandlerSeen, finalizationCount, obj, frame, finalizer,
                   aborted, calls, constructed>>

\* delete p, p pointing to an instance of a class derived from Collectable:
\* the call of the virtual destructor that opens the expression.
DeleteExpr(p, w) ==
    LET a == BlockOf(p)
        cls == w.obj[a].cls
    IN  [f |-> [IdleFrame EXCEPT !.pc = DtorEntry(cls, "self"),
                                 !.op = "delete", !.cls = cls, !.memPtr = p,
                                 !.this = p + SubOff(cls, "self"),
                                 !.sub = "self"],
         w |-> [w EXCEPT !.obj[a].st = "dying", !.obj[a].del = TRUE]]

\* A delete-expression that releases the memory and runs no destructor.
CallDelete_NoDtor(t, p) ==
    /\ ~aborted
    /\ frame[t].pc = "idle"
    /\ p \in held[t]
    /\ heap[BlockOf(p)].kind = "col"
    /\ LET cls == obj[BlockOf(p)].cls
       IN  frame' = [frame EXCEPT ![t] =
                        [IdleFrame EXCEPT !.pc = "op_delete",
                                          !.op = "delete", !.cls = cls,
                                          !.memPtr = p,
                                          !.this = p + SubOff(cls, "self"),
                                          !.sub = "self"]]
    /\ obj' = [obj EXCEPT ![BlockOf(p)].st = "dead",
                           ![BlockOf(p)].del = TRUE]
    /\ held' = [held EXCEPT ![t] = @ \ {p}]
    /\ UNCHANGED <<SingletonVars, handlerObjects,
                   NDEBUG, heap, maxHeapSize, finalizers, heapSizeIndex,
                   newHandler, newHandlerSeen, finalizationCount, finalizer,
                   aborted, calls, constructed>>

\* delete p on an instance of a class derived from Collectable: the virtual
\* destructor is invoked, then Collectable::operator delete.
CallDelete(t, p) ==
    /\ ~aborted
    /\ frame[t].pc = "idle"
    /\ p \in held[t]
    /\ heap[BlockOf(p)].kind = "col"
    /\ LET r == DeleteExpr(p, World)
       IN  /\ frame' = [frame EXCEPT ![t] = r.f]
           /\ SetWorld(r.w)
    /\ held' = [held EXCEPT ![t] = @ \ {p}]
    /\ UNCHANGED <<finalizer, calls>>

\* A thread runs the next destructor of its delete-expression.
StepDtor(t) ==
    /\ ~aborted
    /\ InDtor(frame[t])
    /\ LET r == DtorStep(frame[t], World)
       IN  /\ frame' = [frame EXCEPT ![t] = r.f]
           /\ SetWorld(r.w)
    /\ UNCHANGED <<finalizer, held, calls>>

\* A thread forgets a pointer to a collectable instance.
DropRef(t, p) ==
    /\ ~aborted
    /\ frame[t].pc = "idle"
    /\ p \in held[t]
    /\ heap[BlockOf(p)].kind = "col"
    /\ held' = [held EXCEPT ![t] = @ \ {p}]
    /\ UNCHANGED <<WorldVars, frame, finalizer, calls>>

\* The collector finds that nothing references block a, for which a
\* finalizer is registered: it removes the registration and calls the
\* finalizer, Collectable::cleanup (base, offset).
GC_invoke_finalizer(a) ==
    /\ ~aborted
    /\ finalizer.pc = "idle"
    /\ heap[a].kind # "unc"
    /\ finalizers[a] # NoReg
    /\ Unreachable(a)
    /\ LET this == cleanup(a * BlockSpan, finalizers[a].cd)
           sub == SubAt(obj[a], a, this)
           entry == DtorEntry(obj[a].cls, sub)
       IN  /\ finalizer' = [IdleFrame EXCEPT !.pc = entry, !.op = "cleanup",
                                             !.cls = obj[a].cls,
                                             !.this = this, !.sub = sub]
           /\ obj' = [obj EXCEPT ![a].st = IF sub = "self" THEN "dying" ELSE @]
           /\ aborted' = (entry = "aborted")
    /\ finalizers' = [finalizers EXCEPT ![a] = NoReg]
    /\ UNCHANGED <<SingletonVars, handlerObjects,
                   NDEBUG, heap, maxHeapSize, heapSizeIndex, newHandler,
                   newHandlerSeen, finalizationCount, frame, held, calls,
                   constructed>>

\* The finalizer runs the next destructor; after the last one it returns to
\* the collector.
StepFinalizer ==
    /\ ~aborted
    /\ InDtor(finalizer)
    /\ LET r == DtorStep(finalizer, World)
       IN  /\ finalizer' = IF r.f.pc = "done" THEN IdleFrame ELSE r.f
           /\ SetWorld(r.w)
    /\ UNCHANGED <<frame, held, calls>>

\* The collector reclaims a collectable block that nothing references and
\* that has no finalizer left to run.
GC_reclaim(a) ==
    /\ ~aborted
    /\ heap[a].kind = "col"
    /\ finalizers[a] = NoReg
    /\ Unreachable(a)
    /\ heap' = [heap EXCEPT ![a] = FreeBlock]
    /\ UNCHANGED <<SingletonVars, handlerObjects,
                   NDEBUG, maxHeapSize, finalizers, heapSizeIndex, newHandler,
                   newHandlerSeen, finalizationCount, obj, frame, finalizer,
                   held, aborted, calls, constructed>>

\* A thread reaches the declaration of a MyCollectable in a block scope.
StackAddr(t) == t

EnterScope(t) ==
    /\ ~aborted
    /\ frame[t].pc = "idle"
    /\ calls < MaxCalls
    /\ frame' = [frame EXCEPT ![t] =
                    [IdleFrame EXCEPT !.pc = "scope_ctor", !.op = "scope",
                                      !.cls = "MyCollectable",
                                      !.this = StackAddr(t)]]
    /\ calls' = calls + 1
    /\ UNCHANGED <<WorldVars, finalizer, held>>

\* The thread constructs the variable or, leaving the scope, destroys it.
StepScope(t) ==
    /\ ~aborted
    /\ InScope(frame[t])
    /\ LET r == ScopeStep(frame[t], World)
       IN  /\ frame' = [frame EXCEPT ![t] = r.f]
           /\ SetWorld(r.w)
    /\ UNCHANGED <<finalizer, held, calls>>

\* new MyUncollectableWithCollectablePtr (value, p): the global operator
\* new, then the constructor, which stores p.
CallNewHolder(t, op, p) ==
    /\ ~aborted
    /\ frame[t].pc = "idle"
    /\ calls < MaxCalls
    /\ op \in {"new", "new_nothrow"}
    /\ p \in held[t]
    /\ heap[BlockOf(p)].kind = "col"
    /\ Cardinality(FreeAddrs(heap))
          > Cardinality({u \in Threads : InNew(frame[u])})
    /\ LET cls == "MyUncollectableWithCollectablePtr"
       IN  frame' = [frame EXCEPT ![t] =
                        [NewExpr(op, SizeOf(cls), cls) EXCEPT !.arg = p]]
    /\ calls' = calls + 1
    /\ UNCHANGED <<WorldVars, finalizer, held>>

\* delete p on an instance of a class that is not derived from Collectable:
\* its destructor, then the global operator delete.
CallDeleteGlobal(t, p) ==
    /\ ~aborted
    /\ frame[t].pc = "idle"
    /\ p \in held[t]
    /\ heap[BlockOf(p)].kind = "unc"
    /\ obj[BlockOf(p)].cls \in GlobalClasses
    /\ LET r == DeleteExpr(p, World)
       IN  /\ frame' = [frame EXCEPT ![t] = r.f]
           /\ SetWorld(r.w)
    /\ held' = [held EXCEPT ![t] = @ \ {p}]
    /\ UNCHANGED <<finalizer, calls>>

\* A thread forgets a pointer to memory of the global operators without
\* freeing it.
DropGlobalRef(t, p) ==
    /\ ~aborted
    /\ frame[t].pc = "idle"
    /\ p \in held[t]
    /\ heap[BlockOf(p)].kind = "unc"
    /\ held' = [held EXCEPT ![t] = @ \ {p}]
    /\ UNCHANGED <<WorldVars, frame, finalizer, calls>>

\* A thread calls a deallocation operator on a pointer it holds to plain
\* memory of the global operators, or on a null pointer.
DeleteCall(t, op, p) ==
    /\ ~aborted
    /\ frame[t].pc = "idle"
    /\ op \in DeleteOps
    /\ p \in held[t] \cup {NULL}
    /\ p # NULL => /\ op \in GlobalDeleteOps
                   /\ heap[BlockOf(p)].kind = "unc"
                   /\ obj[BlockOf(p)].cls = "none"
    /\ frame' = [frame EXCEPT ![t] =
                    [IdleFrame EXCEPT !.pc = "done", !.op = op, !.arg = p,
                                      !.outcome = "freed"]]
    /\ SetWorld(DeleteOp(op, p, World))
    /\ held' = [held EXCEPT ![t] = @ \ {p}]
    /\ UNCHANGED <<finalizer, calls>>

\* A thread calls an array operator of Collectable: new T [n],
\* new (std::nothrow) T [n], T::operator delete [] (p), with any size and any
\* pointer, null included.
CallArrayOp(t, op, size, p) ==
    /\ ~aborted
    /\ frame[t].pc = "idle"
    /\ calls < MaxCalls
    /\ op \in ClassArrayOps
    /\ p \in held[t] \cup {NULL}
    /\ LET r == ArrayOp([IdleFrame EXCEPT !.op = op, !.size = size,
                                          !.arg = p], World)
       IN  /\ frame' = [frame EXCEPT ![t] = r.f]
           /\ SetWorld(r.w)
    /\ calls' = calls + 1
    /\ UNCHANGED <<finalizer, held>>

\* NewHandler::resetFlag
resetFlag ==
    /\ ~aborted
    /\ newHandlerSeen
    /\ \A t \in Threads : ~InNew(frame[t])
    /\ newHandlerSeen' = FALSE
    /\ UNCHANGED <<SingletonVars, handlerObjects,
                   NDEBUG, heap, maxHeapSize, finalizers, heapSizeIndex,
                   newHandler, finalizationCount, obj, frame, finalizer, held,
                   aborted, calls, constructed>>

Init ==
    /\ NDEBUG \in BOOLEAN
    /\ heap = [a \in Addr |-> FreeBlock]
    /\ heapSizeIndex = 0
    /\ maxHeapSize = heapSize[heapSizeIndex + 1]
    /\ finalizers = [a \in Addr |-> NoReg]
    /\ newHandler \in HandlerSlot
    /\ newHandlerSeen = FALSE
    /\ finalizationCount = 0
    /\ obj = [a \in Addr |-> NoObject]
    /\ frame = [t \in Threads |-> IdleFrame]
    /\ finalizer = IdleFrame
    /\ held = [t \in Threads |-> {}]
    /\ aborted = FALSE
    /\ calls = 0
    /\ constructed = 0
    /\ isConstructionValid = FALSE
    /\ isInitialized = BOOST_ONCE_INIT
    /\ staticMutex = Unlocked
    /\ instance = NULL
    /\ sframe = [t \in Threads |-> IdleCall]
    /\ made = 0
    /\ handlerObjects = << >>

Next ==
    \/ \E t \in Threads, op \in NewOps, size \in ReqSizes,
          cls \in Classes \cup {"none"} : CallNew(t, op, size, cls)
    \/ \E t \in Threads : StepNew(t)
    \/ \E t \in Threads : StepCtor(t)
    \/ \E t \in Threads : Return(t)
    \/ \E t \in Threads, p \in UNION {held[u] : u \in Threads} :
          OperatorDelete(t, p)
    \/ \E t \in Threads, p \in UNION {held[u] : u \in Threads} :
          CallDelete(t, p)
    \/ \E t \in Threads : StepDtor(t)
    \/ \E t \in Threads, p \in UNION {held[u] : u \in Threads} : DropRef(t, p)
    \/ \E a \in Addr : GC_invoke_finalizer(a)
    \/ StepFinalizer
    \/ \E a \in Addr : GC_reclaim(a)
    \/ \E t \in Threads, op \in {"new", "new_nothrow"} :
          CallNew(t, op, SizeOf("Aggregate"), "Aggregate")
    \/ \E t \in Threads, op \in {"new", "new_nothrow"},
          p \in UNION {held[u] : u \in Threads} : CallNewHolder(t, op, p)
    \/ \E t \in Threads, p \in UNION {held[u] : u \in Threads} :
          CallDeleteGlobal(t, p)
    \/ \E t \in Threads, p \in UNION {held[u] : u \in Threads} :
          DropGlobalRef(t, p)
    \/ \E t \in Threads, op \in DeleteOps,
          p \in UNION {held[u] : u \in Threads} \cup {NULL} :
          DeleteCall(t, op, p)
    \/ \E t \in Threads, op \in ClassArrayOps, size \in ReqSizes,
          p \in UNION {held[u] : u \in Threads} \cup {NULL} :
          CallArrayOp(t, op, size, p)
    \/ \E t \in Threads : EnterScope(t)
    \/ \E t \in Threads : StepScope(t)
    \/ resetFlag

Spec == Init /\ [][Next]_vars

\* The allocation operators alone: threads allocate through all six
\* operators and release what the global ones returned.
NextAlloc ==
    \/ \E t \in Threads, op \in NewOps, size \in ReqSizes,
          cls \in Classes \cup {"none"} : CallNew(t, op, size, cls)
    \/ \E t \in Threads : StepNew(t)
    \/ \E t \in Threads : StepCtor(t)
    \/ \E t \in Threads : Return(t)
    \/ \E t \in Threads, p \in UNION {held[u] : u \in Threads} :
          OperatorDelete(t, p)
    \/ resetFlag

SpecAlloc == Init /\ [][NextAlloc]_vars

\* The life of the instances of classes derived from Collectable: threads
\* create, delete and forget them while the collector finalizes and
\* reclaims.
NextLife ==
    \/ \E t \in Threads, op \in ClassNewOps, cls \in Classes :
          CallNew(t, op, SizeOf(cls), cls)
    \/ \E t \in Threads : StepNew(t)
    \/ \E t \in Threads : StepCtor(t)
    \/ \E t \in Threads : Return(t)
    \/ \E t \in Threads, p \in UNION {held[u] : u \in Threads} :
          CallDelete(t, p)
    \/ \E t \in Threads : StepDtor(t)
    \/ \E t \in Threads, p \in UNION {held[u] : u \in Threads} : DropRef(t, p)
    \/ \E a \in Addr : GC_invoke_finalizer(a)
    \/ StepFinalizer
    \/ \E a \in Addr : GC_reclaim(a)
    \/ resetFlag

SpecLife == Init /\ [][NextLife]_vars

\* The same under repeated forced collections (GC_gcollect in a loop): the
\* collector keeps calling the finalizers of the blocks it finds
\* unreachable, the finalizers run to their end, finalized blocks are
\* reclaimed, and the threads finish the expressions they started.
Collects ==
    /\ WF_vars(\E a \in Addr : GC_invoke_finalizer(a))
    /\ WF_vars(StepFinalizer)
    /\ WF_vars(\E a \in Addr : GC_reclaim(a))

SpecLifeFair == SpecLife /\ Collects

\* A MyCollectable whose pointer is stored in a
\* MyUncollectableWithCollectablePtr: threads create both, forget the
\* MyCollectable, and delete or leak the holder, while the collector runs.
NextHold ==
    \/ \E t \in Threads, op \in ClassNewOps :
          CallNew(t, op, SizeOf("MyCollectable"), "MyCollectable")
    \/ \E t \in Threads, op \in {"new", "new_nothrow"},
          p \in UNION {held[u] : u \in Threads} : CallNewHolder(t, op, p)
    \/ \E t \in Threads : StepNew(t)
    \/ \E t \in Threads : StepCtor(t)
    \/ \E t \in Threads : Return(t)
    \/ \E t \in Threads, p \in UNION {held[u] : u \in Threads} : DropRef(t, p)
    \/ \E t \in Threads, p \in UNION {held[u] : u \in Threads} :
          DropGlobalRef(t, p)
    \/ \E t \in Threads, p \in UNION {held[u] : u \in Threads} :
          CallDeleteGlobal(t, p)
    \/ \E t \in Threads : StepDtor(t)
    \/ \E a \in Addr : GC_invoke_finalizer(a)
    \/ StepFinalizer
    \/ \E a \in Addr : GC_reclaim(a)
    \/ resetFlag

SpecHold == Init /\ [][NextHold]_vars

SpecHoldFair == SpecHold /\ Collects

\* Instances of classes derived from Collectable outside the collectable
\* heap: variables of block scope, and members held by value in an Aggregate
\* that the global operators allocate and delete-expressions release.
NextEmbed ==
    \/ \E t \in Threads : EnterScope(t)
    \/ \E t \in Threads : StepScope(t)
    \/ \E t \in Threads, op \in {"new", "new_nothrow"} :
          CallNew(t, op, SizeOf("Aggregate"), "Aggregate")
    \/ \E t \in Threads : StepNew(t)
    \/ \E t \in Threads : StepCtor(t)
    \/ \E t \in Threads : Return(t)
    \/ \E t \in Threads, p \in UNION {held[u] : u \in Threads} :
          CallDeleteGlobal(t, p)
    \/ \E t \in Threads : StepDtor(t)
    \/ resetFlag

SpecEmbed == Init /\ [][NextEmbed]_vars

\* The operators called one by one, by a single thread: every allocation
\* and deallocation operator, on every size and on null and non-null
\* pointers.
Sequential == {MinOf(Threads)}

NextOps ==
    \/ \E t \in Sequential, op \in NewOps, size \in ReqSizes,
          cls \in Classes \cup {"none"} : CallNew(t, op, size, cls)
    \/ \E t \in Sequential : StepNew(t)
    \/ \E t \in Sequential : StepCtor(t)
    \/ \E t \in Sequential : Return(t)
    \/ \E t \in Sequential, op \in DeleteOps,
          p \in UNION {held[u] : u \in Threads} \cup {NULL} :
          DeleteCall(t, op, p)
    \/ \E t \in Sequential, op \in ClassArrayOps, size \in ReqSizes,
          p \in UNION {held[u] : u \in Threads} \cup {NULL} :
          CallArrayOp(t, op, size, p)
    \/ resetFlag

SpecOps == Init /\ [][NextOps]_vars

(***************************************************************************)
(* Vocabulary of the properties.                                           *)
(***************************************************************************)
ThrowingOps == NewOps \ NoThrowOps

\* The non-throwing form of a throwing allocation operator.
NoThrowOf(op) ==
    CASE op = "new" -> "new_nothrow"
      [] op = "new_array" -> "new_array_nothrow"
      [] op = "Collectable_new" -> "Collectable_new_nothrow"

AllocCases ==
    {c \in NewOps \X ReqSizes \X (Classes \cup {"none"}) :
        ValidNew(c[1], c[2], c[3])}

\* The allocation operator of a new-expression, run from its call to the
\* point where it returns, throws or the process stops, nothing else
\* running in between.
RECURSIVE RunNew(_, _)
RunNew(f, w) ==
    IF InNew(f) /\ (f.pc = "call" => HandlerInRange(f.handler, w))
    THEN LET r == NewStep(f, w) IN RunNew(r.f, r.w)
    ELSE [f |-> f, w |-> w]

RunCase(c) == RunNew(NewExpr(c[1], c[2], c[3]), World)

\* The collector refuses the first request of the case.
Refused(c) ==
    GC_malloc(heap, maxHeapSize, c[2], Region(c[1])).ptr = NULL

\* No call is running and the process is alive: a new-expression may start
\* here and run undisturbed.
Quiet ==
    /\ ~aborted
    /\ \A t \in Threads : frame[t].pc = "idle"
    /\ FreeAddrs(heap) # {}

Count(log, e) == Cardinality({i \in DOMAIN log : log[i].e = e})

Last(log) == log[Len(log)]

\* The operator handed out memory: the pointer is in the caller's variable,
\* or the constructors are running or about to run on it.
Succeeded(f) ==
    \/ f.pc = "done" /\ f.outcome = "returned" /\ f.var # NULL
    \/ InCtor(f) /\ f.memPtr # NULL

FailedWith(f, op) ==
    /\ f.pc = "done"
    /\ f.var = NULL
    /\ f.memPtr = NULL
    /\ f.outcome = IF op \in NoThrowOps THEN "returned" ELSE "bad_alloc"

(***************************************************************************)
(* C1                                                                      *)
(***************************************************************************)
\* The events of one call follow the retry loop: the first is a request; a
\* refusal follows a request; an invocation follows the refusal that read
\* that very handler, which is not null; a later request follows an
\* invocation.
LogGrammar(log) ==
    \A i \in DOMAIN log :
        /\ log[i].e = "req" => i = 1 \/ log[i - 1].e = "inv"
        /\ log[i].e = "ref" => i > 1 /\ log[i - 1].e = "req"
        /\ log[i].e = "inv" =>
              /\ i > 1
              /\ log[i - 1] = Ev("ref", log[i].h)
              /\ log[i].h # NoHandler

\* Where the call stands after its last event.
LogPending(f) ==
    /\ f.pc = "alloc" => f.log = <<>> \/ Last(f.log).e = "inv"
    /\ f.log # <<>> /\ Last(f.log).e = "ref" /\ Last(f.log).h # NoHandler =>
          f.pc \in {"restore", "call"} /\ f.handler = Last(f.log).h
    /\ f.log # <<>> /\ Last(f.log) = Ev("ref", NoHandler) =>
          f.pc = "done" /\ f.outcome = "bad_alloc" /\ f.thrower = "operator"
    /\ f.log # <<>> /\ Last(f.log).e = "inv" =>
          \/ f.pc = "alloc"
          \/ f.pc = "done" /\ f.outcome = "bad_alloc" /\ f.thrower = "handler"
          \/ f.pc = "aborted"
    /\ f.outcome = "bad_alloc" =>
          \/ f.thrower = "operator" /\ Last(f.log) = Ev("ref", NoHandler)
          \/ f.thrower = "handler" /\ Last(f.log).e = "inv"

\* C1: in the throwing global and Collectable allocation operators, under
\* every interleaving and every answer of the collector, a refusal that
\* reads an installed handler is followed by exactly one invocation of that
\* handler and, when the handler returns, by a new request; the operator
\* itself throws std::bad_alloc only at a refusal that read no handler.  A
\* call that starts with a handler installed and runs undisturbed does not
\* end in failure before it has invoked the handler.
C1_HandlerBeforeFailure ==
    /\ \A t \in Threads :
          frame[t].op \in ThrowingOps =>
              LogGrammar(frame[t].log) /\ LogPending(frame[t])
    /\ Quiet /\ newHandler # NoHandler =>
          \A c \in AllocCases :
              c[1] \in ThrowingOps =>
                 LET r == RunCase(c)
                 IN  /\ LogGrammar(r.f.log) /\ LogPending(r.f)
                     /\ Count(r.f.log, "inv") = Count(r.f.log, "ref")
                     /\ r.f.outcome = "bad_alloc" =>
                           /\ Count(r.f.log, "inv") >= 1
                           /\ r.f.thrower = "handler"

\* A throwing call whose handler returned and which asked the collector
\* again.
C1_Witness ==
    \E t \in Threads :
        /\ frame[t].op \in ThrowingOps
        /\ Len(frame[t].log) >= 4
        /\ frame[t].log[3].e = "inv"
        /\ frame[t].log[4].e = "req"

(***************************************************************************)
(* C2                                                                      *)
(***************************************************************************)
\* C2: operator new (size), operator new [] (size) and Collectable::operator
\* new (size) never return null: a call that returns hands out a non-null
\* pointer to a block the collector allocated for it, and a call that ends
\* otherwise ends with std::bad_alloc.
C2_NeverNull ==
    \A t \in Threads :
        LET f == frame[t]
        IN  f.op \in ThrowingOps =>
              /\ InCtor(f) =>
                    /\ f.memPtr # NULL
                    /\ heap[BlockOf(f.memPtr)] =
                          [kind |-> Region(f.op), size |-> f.size]
              /\ f.pc = "done" =>
                    \/ /\ f.outcome = "returned"
                       /\ f.var # NULL
                       /\ f.var = f.memPtr
                       /\ heap[BlockOf(f.var)] =
                             [kind |-> Region(f.op), size |-> f.size]
                    \/ f.outcome = "bad_alloc" /\ f.var = NULL

\* operator new [] returned memory after a refusal and a handler's help.
C2_Witness ==
    \E t \in Threads :
        /\ frame[t].op = "new_array"
        /\ frame[t].pc = "done"
        /\ frame[t].outcome = "returned"
        /\ frame[t].var # NULL
        /\ Count(frame[t].log, "req") >= 2

(***************************************************************************)
(* C3                                                                      *)
(***************************************************************************)
NoHandlerLog == <<Ev("req", NoHandler), Ev("ref", NoHandler)>>

\* C3: with no handler installed, an allocation the collector refuses fails
\* at once: one request, no handler invocation, std::bad_alloc from the
\* throwing forms and null from the non-throwing ones, no pointer for the
\* caller, and nothing else changed.
C3_NoHandlerFailsAtOnce ==
    /\ \A t \in Threads :
          LET f == frame[t]
          IN  Len(f.log) >= 2 /\ f.log[2] = Ev("ref", NoHandler) =>
                 f.log = NoHandlerLog /\ FailedWith(f, f.op)
    /\ Quiet /\ newHandler = NoHandler =>
          \A c \in AllocCases :
              Refused(c) =>
                 LET r == RunCase(c)
                 IN  /\ r.f.log = NoHandlerLog
                     /\ Count(r.f.log, "req") = 1
                     /\ Count(r.f.log, "inv") = 0
                     /\ FailedWith(r.f, c[1])
                     /\ r.w = World

\* A non-throwing class allocation that returned null at its first refusal.
C3_Witness ==
    \E t \in Threads :
        /\ frame[t].op = "Collectable_new_nothrow"
        /\ frame[t].log = NoHandlerLog
        /\ frame[t].pc = "done"
        /\ frame[t].var = NULL

(***************************************************************************)
(* C4                                                                      *)
(***************************************************************************)
\* The request of the case fits under a maximum heap size of max.
Fits(c, max) == max = 0 \/ Used(heap) + c[2] + 1 <= max

\* The invocations of nonThrowingHandler after which the request fits.
HelpAt(c) ==
    {k \in 1..(Len(heapSize) - heapSizeIndex - 1) :
        Fits(c, heapSize[heapSizeIndex + k + 1])}

AllRefs(log, h) == \A i \in DOMAIN log : log[i].e = "ref" => log[i].h = h

\* C4: with the handler that returns and enlarges the heap installed, a
\* refused allocation succeeds with a non-null pointer after the handler has
\* run k times, k being the first invocation after which the request fits
\* (once, the heap-size index one further, when one step is enough), for the
\* global and the Collectable operators, throwing and non-throwing; the
\* handler returns from every invocation when assertions are compiled out,
\* and from the first when its flag is clear.
C4_HandlerHelps ==
    /\ \A t \in Threads :
          LET f == frame[t]
          IN  /\ f.op \in NewOps
              /\ f.pc = "done"
              /\ AllRefs(f.log, "nonThrowingHandler")
              => Succeeded(f) /\ Count(f.log, "inv") = Count(f.log, "req") - 1
    /\ Quiet /\ newHandler = "nonThrowingHandler" =>
          \A c \in AllocCases :
              Refused(c) =>
                 /\ HelpAt(c) # {}
                 /\ LET k == MinOf(HelpAt(c))
                        r == RunCase(c)
                    IN  NDEBUG \/ (k = 1 /\ ~newHandlerSeen) =>
                           /\ Succeeded(r.f)
                           /\ Count(r.f.log, "inv") = k
                           /\ Count(r.f.log, "req") = k + 1
                           /\ r.w.heapSizeIndex = heapSizeIndex + k
                           /\ r.w.newHandlerSeen
                           /\ r.w.newHandler = "nonThrowingHandler"

\* A class allocation that succeeded after two invocations of the handler.
C4_Witness ==
    \E t \in Threads :
        /\ frame[t].op \in ClassNewOps
        /\ frame[t].pc = "done"
        /\ frame[t].var # NULL
        /\ Count(frame[t].log, "inv") = 2
        /\ AllRefs(frame[t].log, "nonThrowingHandler")

(***************************************************************************)
(* C5                                                                      *)
(***************************************************************************)
\* C5: from every state in which an allocation can start, for every size and
\* handler, the non-throwing form returns null exactly when the throwing
\* form throws std::bad_alloc and a non-null pointer exactly when the
\* throwing form returns one (the same one), with the same requests and
\* handler invocations and the same effects; std::bad_alloc never leaves a
\* non-throwing form.
C5_NoThrowEquivalence ==
    /\ \A t \in Threads :
          frame[t].op \in NoThrowOps => frame[t].outcome # "bad_alloc"
    /\ Quiet =>
          \A c \in AllocCases :
              c[1] \in ThrowingOps =>
                 LET a == RunCase(c)
                     b == RunCase(<<NoThrowOf(c[1]), c[2], c[3]>>)
                 IN  /\ a.f.log = b.f.log
                     /\ a.w = b.w
                     /\ a.f.pc = b.f.pc
                     /\ b.f.outcome # "bad_alloc"
                     /\ (b.f.pc = "done" /\ b.f.outcome = "returned"
                            /\ b.f.var = NULL)
                           <=> (a.f.pc = "done" /\ a.f.outcome = "bad_alloc")
                     /\ Succeeded(b.f) <=> Succeeded(a.f)
                     /\ Succeeded(a.f) => a.f.memPtr = b.f.memPtr

\* Two calls for the same size with the same events: operator new threw,
\* operator new (nothrow) returned null.
C5_Witness ==
    \E t, u \in Threads :
        /\ frame[t].op = "new"
        /\ frame[u].op = "new_nothrow"
        /\ frame[t].size = frame[u].size
        /\ frame[t].log = frame[u].log
        /\ frame[t].pc = "done" /\ frame[t].outcome = "bad_alloc"
        /\ frame[u].pc = "done" /\ frame[u].outcome = "returned"
        /\ frame[u].var = NULL

(***************************************************************************)
(* C6                                                                      *)
(***************************************************************************)
ThrowingLog ==
    <<Ev("req", NoHandler), Ev("ref", "throwingHandler"),
      Ev("inv", "throwingHandler")>>

\* C6: with throwingHandler installed, a refused allocation invokes it once
\* and ends: std::bad_alloc from the throwing forms, null from the
\* non-throwing ones, no pointer and no block in either case (a failed
\* assert in the handler ends the process instead, also at the first
\* invocation).
C6_ThrowingHandlerEnds ==
    /\ \A t \in Threads :
          LET f == frame[t]
          IN  /\ f.op \in NewOps
              /\ f.log # <<>>
              /\ Last(f.log) = Ev("inv", "throwingHandler")
              => /\ f.log = ThrowingLog
                 /\ FailedWith(f, f.op) \/ f.pc = "aborted"
    /\ Quiet /\ newHandler = "throwingHandler" =>
          \A c \in AllocCases :
              Refused(c) =>
                 LET r == RunCase(c)
                 IN  /\ r.f.log = ThrowingLog
                     /\ r.f.var = NULL
                     /\ r.f.memPtr = NULL
                     /\ r.w.heap = heap
                     /\ IF HandlerAsserts(World)
                        THEN r.f.pc = "aborted" /\ r.w.aborted
                        ELSE /\ FailedWith(r.f, c[1])
                             /\ r.w.newHandlerSeen
                             /\ r.w.newHandler = "throwingHandler"

\* operator new [] (nothrow) returned null after throwingHandler threw.
C6_Witness ==
    \E t \in Threads :
        /\ frame[t].op = "new_array_nothrow"
        /\ frame[t].log = ThrowingLog
        /\ frame[t].pc = "done"
        /\ frame[t].outcome = "returned"
        /\ frame[t].var = NULL

(***************************************************************************)
(* C7                                                                      *)
(***************************************************************************)
\* C7: under every interleaving of the threads' new- and delete-expressions
\* with the collector's finalizations and reclamations, the destructor
\* chain of an instance runs at most once, on the instance and on its
\* member, and the finalization count never exceeds the number of instances
\* constructed.
C7_FinalizedAtMostOnce ==
    /\ \A a \in Addr : obj[a].runs <= 1 /\ obj[a].mruns <= 1
    /\ finalizationCount <= constructed

\* Two instances constructed, one destroyed by delete and one by the
\* collector.
C7_Witness ==
    /\ constructed = 2
    /\ finalizationCount = 2
    /\ \E a, b \in Addr :
          /\ obj[a].del /\ obj[a].runs = 1
          /\ ~obj[b].del /\ obj[b].runs = 1

(***************************************************************************)
(* C8                                                                      *)
(***************************************************************************)
RECURSIVE RunDtor(_, _)
RunDtor(f, w) ==
    IF InDtor(f)
    THEN LET r == DtorStep(f, w) IN RunDtor(r.f, r.w)
    ELSE [f |-> f, w |-> w]

\* C8: delete p on a collector-allocated instance runs its destructor chain
\* once, before the memory is released: the finalization count is one higher
\* when the expression ends than when it began, the block is free and has no
\* finalizer; and the collector never calls the finalizer for an instance a
\* delete-expression was applied to.
C8_DeleteFinalizesOnce ==
    /\ \A t \in Threads :
          frame[t].op = "delete" /\ frame[t].pc = "op_delete" =>
              LET o == obj[BlockOf(frame[t].memPtr)]
              IN  o.runs = 1 /\ o.st = "dead" /\ o.del
    /\ finalizer.pc # "idle" => ~obj[BlockOf(finalizer.this)].del
    /\ ~aborted =>
          \A t \in Threads : \A p \in held[t] :
              heap[BlockOf(p)].kind = "col" =>
                 LET a == BlockOf(p)
                     d == DeleteExpr(p, World)
                     r == RunDtor(d.f, d.w)
                 IN  /\ r.f.pc = "done" /\ r.f.outcome = "deleted"
                     /\ r.w.finalizationCount = finalizationCount + 1
                     /\ r.w.obj[a].runs = 1
                     /\ r.w.finalizers[a] = NoReg
                     /\ r.w.heap[a] = FreeBlock

\* An instance was deleted, its memory released, and the collector is
\* finalizing another instance.
C8_Witness ==
    \E a \in Addr :
        /\ obj[a].del
        /\ obj[a].runs = 1
        /\ heap[a] = FreeBlock
        /\ finalizationCount = 1
        /\ finalizer.pc # "idle"
        /\ BlockOf(finalizer.this) # a

C10_RegistrationLeadsBack ==
    \A a \in Addr :
        heap[a].kind = "col" /\ obj[a].st = "live" =>
            /\ finalizers[a].fn = "cleanup"
            /\ SubAt(obj[a], a, cleanup(a * BlockSpan, finalizers[a].cd))
                  = "self"


\* C11: an instance that does not live in collectable heap memory (a variable
\* of block scope, or a member held by value in an aggregate allocated with
\* the global operators) registers nothing with the collector, and its
\* destructor runs exactly once, when its scope or its owner ends.
C11_NothingRegisteredOffHeap ==
    /\ \A a \in Addr : heap[a].kind # "col" => finalizers[a] = NoReg
    /\ \A t \in Threads :
          frame[t].op = "scope" /\ frame[t].pc = "done"
              => Count(frame[t].log, "dtor") = 1
    /\ \A a \in Addr :
          obj[a].cls = "Aggregate" /\ obj[a].st = "dead" => obj[a].mruns = 1

\* C12: each of the four array operators of Collectable ends, for every size
\* and every pointer, null included, in its not-supported error (array new:
\* ArrayNewNotSupportedException, array delete:
\* ArrayDeleteNotSupportedException), without requesting or releasing
\* memory, without reading or invoking the new-handler, without a retry, and
\* without turning the error into a null result.
C12_ArrayOpsEndInNotSupported ==
    \A t \in Threads :
        frame[t].op \in ClassArrayOps /\ frame[t].pc = "done"
            => /\ frame[t].outcome = Thrown(frame[t].op)
               /\ frame[t].log = <<>>
               /\ frame[t].var = NULL
               /\ ~aborted

\* No thread is at work, no thread holds a pointer and no instance will be
\* created any more: every instance constructed so far was deleted or has
\* become unreachable.
AllUnreachable ==
    /\ ~aborted
    /\ calls = MaxCalls
    /\ \A t \in Threads : frame[t].pc = "idle" /\ held[t] = {}

\* C13: once the N instances created in collectable memory have become
\* unreachable, repeated collections bring the finalization count to exactly
\* N (one destructor run per instance constructed), where it stays.
C13_CountReachesN == AllUnreachable ~> [](finalizationCount = constructed)

\* Block b holds a MyUncollectableWithCollectablePtr, not yet freed, that
\* some thread can still reach.
HolderReachable(b) ==
    /\ heap[b].kind = "unc"
    /\ obj[b].cls = "MyUncollectableWithCollectablePtr"
    /\ obj[b].st = "live"
    /\ \E t \in Threads :
          b \in {BlockOf(p) : p \in held[t] \cup {frame[t].var}}

\* No thread and no running call has a pointer into block a.
OnlyInHolder(a) ==
    \A t \in Threads :
        \A p \in held[t] \cup {frame[t].memPtr, frame[t].var, frame[t].arg} :
            BlockOf(p) # a

\* C14: a MyCollectable in collectable memory whose only pointer is stored in
\* an object allocated by the global operator new is not finalized by any
\* collection as long as that object is reachable: it stays allocated and
\* live, its destructor has not run, its registration is untouched and the
\* finalizer is not at work on it.
C14_HeldObjectNotFinalized ==
    \A b \in Addr :
        HolderReachable(b) /\ obj[b].ptr # NULL
            => LET a == BlockOf(obj[b].ptr)
               IN  /\ heap[a].kind = "col"
                   /\ obj[a].st = "live"
                   /\ obj[a].runs = 0
                   /\ finalizers[a] # NoReg
                   /\ BlockOf(finalizer.this) # a

C14_Witness ==
    \E b \in Addr :
        /\ HolderReachable(b)
        /\ obj[b].ptr # NULL
        /\ OnlyInHolder(BlockOf(obj[b].ptr))
        /\ obj[BlockOf(obj[b].ptr)].st = "live"
        /\ \A t \in Threads : frame[t].pc = "idle"

\* The MyCollectable in block a is live, nothing but holders points to it,
\* and no allocation is running or will start.
LeftToHolders(a) ==
    /\ ~aborted
    /\ calls = MaxCalls
    /\ \A t \in Threads : frame[t].pc = "idle"
    /\ heap[a].kind = "col"
    /\ obj[a].st = "live"
    /\ OnlyInHolder(a)

\* Block b is, or was until it was freed, a holder of a pointer into block
\* a that no thread can reach.
HolderOutOfReach(b, a) ==
    /\ obj[b].cls = "MyUncollectableWithCollectablePtr"
    /\ obj[b].ptr # NULL
    /\ BlockOf(obj[b].ptr) = a
    /\ \/ heap[b].kind = "unc" /\ obj[b].st = "live"
       \/ heap[b].kind = "free" /\ obj[b].del
    /\ \A t \in Threads : \A p \in held[t] : BlockOf(p) # b

\* C15 as stated: once no pointer to the holder remains, repeated collections
\* eventually finalize the MyCollectable whose only pointer the holder has.
C15_UnreachableHolderReleases ==
    \A a \in Addr :
        (LeftToHolders(a) /\ \E b \in Addr : HolderOutOfReach(b, a))
            ~> (obj[a].runs = 1)

\* C15, amended: once the holder has been freed (delete holder) and nothing
\* else points to the MyCollectable, repeated collections eventually
\* finalize it.
C15_FreedHolderReleases ==
    \A a \in Addr :
        (/\ LeftToHolders(a)
         /\ Unreachable(a)
         /\ \E b \in Addr : HolderOutOfReach(b, a) /\ heap[b].kind = "free")
            ~> (obj[a].runs = 1)

C15_Witness ==
    \E a, b \in Addr :
        /\ HolderOutOfReach(b, a)
        /\ heap[b].kind = "free"
        /\ obj[a].cls = "MyCollectable"
        /\ obj[a].st = "dead"
        /\ obj[a].runs = 1
        /\ ~obj[a].del

\* The parts of the state an allocation operator can change, the heap apart.
HandlerState(w) ==
    <<w.maxHeapSize, w.heapSizeIndex, w.newHandler, w.newHandlerSeen,
      w.aborted, w.finalizers, w.finalizationCount>>

SingleOf(op) ==
    CASE op = "new_array" -> "new"
      [] op = "new_array_nothrow" -> "new_nothrow"
      [] op = "delete_array" -> "delete"
      [] op = "delete_array_nothrow" -> "delete_nothrow"

AllHeld == UNION {held[t] : t \in Threads}

\* C17: from the same state, for every size, operator new [] and operator
\* new [] (nothrow) return or fail exactly as operator new and operator new
\* (nothrow) do, with the same requests and handler invocations and the same
\* effects; for every pointer, null included, operator delete [] and
\* operator delete [] (nothrow) have the effect of operator delete and
\* operator delete (nothrow).
C17_ArrayAsSingle ==
    Quiet =>
        /\ \A op \in {"new_array", "new_array_nothrow"}, size \in ReqSizes :
              LET a == RunNew(NewExpr(op, size, "none"), World)
                  b == RunNew(NewExpr(SingleOf(op), size, "none"), World)
              IN  /\ a.f = [b.f EXCEPT !.op = op]
                  /\ a.w = b.w
        /\ \A op \in {"delete_array", "delete_array_nothrow"},
              p \in AllHeld \cup {NULL} :
              DeleteOp(op, p, World) = DeleteOp(SingleOf(op), p, World)

\* operator delete [] released a block; the thread still holds another one.
C17_Witness ==
    \E t \in Threads :
        /\ frame[t].op \in {"delete_array", "delete_array_nothrow"}
        /\ frame[t].pc = "done"
        /\ frame[t].arg # NULL
        /\ heap[BlockOf(frame[t].arg)].kind = "free"
        /\ \E p \in held[t] : heap[BlockOf(p)].kind = "unc"

\* C18: operator delete, operator delete (nothrow), operator delete [],
\* operator delete [] (nothrow), Collectable::operator delete and
\* Collectable::operator delete (nothrow), called with a null pointer, raise
\* nothing and change nothing: not the blocks of the collector, not the
\* finalizer registrations, not the new-handler.
C18_NullDeleteIsNoOp ==
    /\ ~aborted => \A op \in DeleteOps : DeleteOp(op, NULL, World) = World
    /\ \A t \in Threads :
          /\ frame[t].op \in DeleteOps
          /\ frame[t].pc = "done"
          /\ frame[t].arg = NULL
          => frame[t].outcome = "freed" /\ ~aborted

\* A deallocation operator returned from a call with a null pointer while
\* blocks of both kinds and a finalizer registration exist.
C18_Witness ==
    \E t \in Threads :
        /\ frame[t].op \in ClassDeleteOps
        /\ frame[t].pc = "done"
        /\ frame[t].arg = NULL
        /\ newHandler # NoHandler
        /\ \E a \in Addr : heap[a].kind = "unc"
        /\ \E a \in Addr : heap[a].kind = "col" /\ finalizers[a] # NoReg

\* Every address an instance may have: in a block of the collector or, below
\* the first block, on a stack.
AnyAddress == 0 .. (MaxAddr + 1) * BlockSpan - 1

\* C19: Collectable::~Collectable, run at any address, raises nothing; when
\* the instance has no registration (it is not in memory of the collector,
\* or the collector consumed the registration when it called the finalizer)
\* it changes nothing at all; otherwise it removes the registration of the
\* base address and no other; in both cases no registration is left for the
\* base address, and running it again changes nothing.
C19_DeregistrationIdempotent ==
    ~aborted =>
        \A this \in AnyAddress :
            LET base == GC_base(heap, this)
                w == DtorCollectable(this, World)
            IN  /\ ~w.aborted
                /\ base = NULL => w = World
                /\ base # NULL /\ finalizers[BlockOf(base)] = NoReg => w = World
                /\ base # NULL =>
                      /\ w.finalizers[BlockOf(base)] = NoReg
                      /\ w = [World EXCEPT !.finalizers[BlockOf(base)] = NoReg]
                /\ DtorCollectable(this, w) = w

\* The collector consumed the registration of a MyCollectable and its
\* finalizer ran the destructors, ~Collectable last: the instance is
\* destroyed, its block not yet reclaimed, nothing registered for it.
C19_Witness ==
    \E a \in Addr :
        /\ heap[a].kind = "col"
        /\ obj[a].cls = "MyCollectable"
        /\ obj[a].st = "dead"
        /\ obj[a].runs = 1
        /\ ~obj[a].del
        /\ finalizers[a] = NoReg
        /\ finalizer.pc = "idle"

\* The deallocation operator that matches a single-object allocation
\* operator.
MatchingDelete(op) ==
    CASE op = "new" -> "delete"
      [] op = "new_nothrow" -> "delete_nothrow"
      [] op = "Collectable_new" -> "Collectable_delete"
      [] op = "Collectable_new_nothrow" -> "Collectable_delete_nothrow"

SingleNewOps ==
    {"new", "new_nothrow", "Collectable_new", "Collectable_new_nothrow"}

\* C20: each of the four single-object allocation operators passes a request
\* of size 0 to the collector as its first step and treats the answer as
\* for any other size; when the collector grants it at once the operator
\* ends there, without a handler, with a non-null pointer to a block of
\* size 0 that was free before, which is the pointer of no allocation held,
\* and the matching deallocation operator releases that block and restores
\* the heap.
C20_ZeroSizeServed ==
    Quiet =>
        \A op \in SingleNewOps :
            LET cls == IF op \in ClassNewOps THEN "MyCollectable" ELSE "none"
                r == RunNew(NewExpr(op, 0, cls), World)
                first == GC_malloc(heap, maxHeapSize, 0, Region(op))
            IN  /\ r.f.log # <<>>
                /\ r.f.log[1] = Ev("req", NoHandler)
                /\ first.ptr # NULL =>
                      /\ Succeeded(r.f)
                      /\ r.f.log = <<Ev("req", NoHandler)>>
                      /\ r.f.memPtr = first.ptr
                /\ Succeeded(r.f) =>
                      LET k == BlockOf(r.f.memPtr)
                      IN  /\ r.f.memPtr # NULL
                          /\ heap[k].kind = "free"
                          /\ r.w.heap[k] =
                                [kind |-> Region(op), size |-> 0]
                          /\ \A p \in AllHeld :
                                heap[BlockOf(p)].kind # "free"
                                    => BlockOf(p) # k /\ p # r.f.memPtr
                          /\ DeleteOp(MatchingDelete(op), r.f.memPtr,
                                      r.w).heap = heap

\* operator new (0) returned a pointer while the thread holds another
\* allocation: two blocks are allocated, the new one of size 0.
C20_Witness ==
    \E t \in Threads :
        /\ frame[t].op \in SingleNewOps
        /\ frame[t].size = 0
        /\ frame[t].pc = "done"
        /\ frame[t].var # NULL
        /\ heap[BlockOf(frame[t].var)].size = 0
        /\ \E p \in held[t] :
              /\ p # frame[t].var
              /\ heap[BlockOf(p)].kind # "free"

(***************************************************************************)
(* Facsimile::Singleton <T> (include/Facsimile/Singleton.hpp).             *)
(***************************************************************************)
\* The static members of Singleton <T>, as one record.
Statics ==
    [isConstructionValid |-> isConstructionValid,
     isInitialized |-> isInitialized,
     staticMutex |-> staticMutex,
     instance |-> instance,
     made |-> made]

SetStatics(S) ==
    /\ isConstructionValid' = S.isConstructionValid
    /\ isInitialized' = S.isInitialized
    /\ staticMutex' = S.staticMutex
    /\ instance' = S.instance
    /\ made' = S.made

\* A mutex that its owner cannot lock a second time.
CanLock_NotRecursive(m, t) == m.owner = 0

\* boost::recursive_mutex: free, or already locked by the same thread.
CanLock(m, t) == m.owner \in {0, t}

Lock(m, t) == [owner |-> t, count |-> m.count + 1]

\* The end of the scope of a scoped_lock.
Unlock(m) == IF m.count = 1 THEN Unlocked ELSE [m EXCEPT !.count = @ - 1]

\* A call_once that runs the function in every caller that finds it not
\* completed.
call_once_NotOnce(flag) == IF flag = "done" THEN "skip" ELSE "run"

\* A call_once that lets callers through while the function is running.
call_once_NoWait(flag) == IF flag = BOOST_ONCE_INIT THEN "run" ELSE "skip"

\* boost::call_once (initialize, isInitialized): the first caller runs the
\* function, callers arriving while it runs wait, later callers pass.
call_once(flag) ==
    CASE flag = BOOST_ONCE_INIT -> "run"
      [] flag = "running" -> "wait"
      [] flag = "done" -> "skip"

\* A constructor that leaves isConstructionValid as it found it.
ClearValid_Keeps(valid) == valid

\* isConstructionValid = false, in the constructor
ClearValid(valid) == FALSE

\* The thread cannot take its next step yet: it waits in call_once or for
\* staticMutex.
Waiting(t, f, S) ==
    \/ f.pc = "call_once" /\ call_once(S.isInitialized) = "wait"
    \/ f.pc \in {"init_lock", "ctor_lock"} /\ ~CanLock(S.staticMutex, t)

\* The next step of thread t in getInstance (f.op = "getInstance": call_once,
\* initialize, new T (), the constructor, the return) or in a construction
\* of its own (f.op = "new": new T (); f.op = "stack": T on the stack).
SingletonStep(t, f, S, w) ==
    CASE f.pc = "call_once" ->
            IF call_once(S.isInitialized) = "run"
            THEN [f |-> [f EXCEPT !.pc = "init_lock"],
                  S |-> [S EXCEPT !.isInitialized = "running"], w |-> w]
            ELSE [f |-> [f EXCEPT !.pc = "assert"], S |-> S, w |-> w]
      [] f.pc = "init_lock" ->
            \* boost::recursive_mutex::scoped_lock lock (staticMutex);
            [f |-> [f EXCEPT !.pc = "init_flag"],
             S |-> [S EXCEPT !.staticMutex = Lock(@, t)], w |-> w]
      [] f.pc = "init_flag" ->
            [f |-> [f EXCEPT !.pc = "op_new"],
             S |-> [S EXCEPT !.isConstructionValid = TRUE], w |-> w]
      [] f.pc = "op_new" ->
            \* new T (): ::operator new (sizeof (T)); std::bad_alloc ends the
            \* process when it meets the throw () of initialize
            LET r == RunNew(NewExpr("new", SizeOf("SingletonTest"), "none"), w)
            IN  CASE Succeeded(r.f) ->
                        [f |-> [f EXCEPT !.pc = "ctor_lock",
                                         !.memPtr = r.f.memPtr],
                         S |-> S, w |-> r.w]
                  [] r.f.pc = "done" /\ f.op # "getInstance" ->
                        [f |-> [f EXCEPT !.pc = "done",
                                         !.outcome = "bad_alloc"],
                         S |-> S, w |-> r.w]
                  [] OTHER ->
                        [f |-> [f EXCEPT !.pc = "aborted"], S |-> S,
                         w |-> [r.w EXCEPT !.aborted = TRUE]]
      [] f.pc = "ctor_lock" ->
            \* boost::recursive_mutex::scoped_lock lock (staticMutex);
            [f |-> [f EXCEPT !.pc = "ctor_check"],
             S |-> [S EXCEPT !.staticMutex = Lock(@, t)], w |-> w]
      [] f.pc = "ctor_check" /\ S.isConstructionValid ->
            [f |-> [f EXCEPT !.pc = "ctor_unlock"],
             S |-> [S EXCEPT !.isConstructionValid = ClearValid(@)], w |-> w]
      [] f.pc = "ctor_check" /\ f.op = "getInstance" ->
            \* SingletonException meets the throw () of initialize
            [f |-> [f EXCEPT !.pc = "aborted"],
             S |-> [S EXCEPT !.staticMutex = Unlock(@)],
             w |-> [w EXCEPT !.aborted = TRUE]]
      [] f.pc = "ctor_check" ->
            \* throw SingletonException: the lock is released and the
            \* new-expression gives the memory back
            [f |-> [f EXCEPT !.pc = "done",
                             !.outcome = "SingletonException"],
             S |-> [S EXCEPT !.staticMutex = Unlock(@)],
             w |-> IF f.op = "new"
                   THEN DeleteOp("delete", f.memPtr, w)
                   ELSE w]
      [] f.pc = "ctor_unlock" ->
            [f |-> IF f.op = "getInstance"
                   THEN [f EXCEPT !.pc = "init_store"]
                   ELSE [f EXCEPT !.pc = "done", !.outcome = "constructed",
                                  !.ret = f.memPtr],
             S |-> [S EXCEPT !.staticMutex = Unlock(@), !.made = @ + 1],
             w |-> w]
      [] f.pc = "init_store" ->
            \* instance = new T ();
            [f |-> [f EXCEPT !.pc = "init_assert"],
             S |-> [S EXCEPT !.instance = f.memPtr], w |-> w]
      [] f.pc = "init_assert" ->
            \* assert (instance); assert (!isConstructionValid);
            IF ~w.NDEBUG /\ (S.instance = NULL \/ S.isConstructionValid)
            THEN [f |-> [f EXCEPT !.pc = "aborted"], S |-> S,
                  w |-> [w EXCEPT !.aborted = TRUE]]
            ELSE [f |-> [f EXCEPT !.pc = "init_unlock"], S |-> S, w |-> w]
      [] f.pc = "init_unlock" ->
            [f |-> [f EXCEPT !.pc = "once_done"],
             S |-> [S EXCEPT !.staticMutex = Unlock(@)], w |-> w]
      [] f.pc = "once_done" ->
            [f |-> [f EXCEPT !.pc = "assert"],
             S |-> [S EXCEPT !.isInitialized = "done"], w |-> w]
      [] f.pc = "assert" ->
            \* assert (instance); return *instance;
            IF ~w.NDEBUG /\ S.instance = NULL
            THEN [f |-> [f EXCEPT !.pc = "aborted"], S |-> S,
                  w |-> [w EXCEPT !.aborted = TRUE]]
            ELSE [f |-> [f EXCEPT !.pc = "done", !.outcome = "returned",
                                  !.ret = S.instance],
                  S |-> S, w |-> w]

InSingleton(f) == f.pc \notin {"idle", "done", "aborted"}

\* A thread calls T::getInstance ().
CallGetInstance(t) ==
    /\ ~aborted
    /\ sframe[t].pc = "idle"
    /\ sframe' = [sframe EXCEPT ![t] =
                     [IdleCall EXCEPT !.pc = "call_once",
                                      !.op = "getInstance"]]
    /\ UNCHANGED <<handlerObjects,
                   NDEBUG, heap, maxHeapSize, finalizers, heapSizeIndex,
                   newHandler, newHandlerSeen, finalizationCount, obj, frame,
                   finalizer, held, aborted, calls, constructed,
                   isConstructionValid, isInitialized, staticMutex, instance,
                   made>>

\* A thread constructs a T itself: new T () or a T on its stack.
CallConstructor(t, how) ==
    /\ ~aborted
    /\ sframe[t].pc = "idle"
    /\ how \in {"new", "stack"}
    /\ sframe' = [sframe EXCEPT ![t] =
                     IF how = "new"
                     THEN [IdleCall EXCEPT !.pc = "op_new", !.op = "new"]
                     ELSE [IdleCall EXCEPT !.pc = "ctor_lock", !.op = "stack",
                                           !.memPtr = StackAddr(t)]]
    /\ UNCHANGED <<handlerObjects,
                   NDEBUG, heap, maxHeapSize, finalizers, heapSizeIndex,
                   newHandler, newHandlerSeen, finalizationCount, obj, frame,
                   finalizer, held, aborted, calls, constructed,
                   isConstructionValid, isInitialized, staticMutex, instance,
                   made>>

\* The thread takes its next step, unless it has to wait.
StepSingleton(t) ==
    /\ ~aborted
    /\ InSingleton(sframe[t])
    /\ ~Waiting(t, sframe[t], Statics)
    /\ sframe[t].pc = "op_new" =>
          Cardinality(FreeAddrs(heap))
              > Cardinality({u \in Threads \ {t} : sframe[u].pc = "op_new"})
    /\ LET r == SingletonStep(t, sframe[t], Statics, World)
       IN  /\ sframe' = [sframe EXCEPT ![t] = r.f]
           /\ SetStatics(r.S)
           /\ heap' = r.w.heap
           /\ maxHeapSize' = r.w.maxHeapSize
           /\ heapSizeIndex' = r.w.heapSizeIndex
           /\ newHandler' = r.w.newHandler
           /\ newHandlerSeen' = r.w.newHandlerSeen
           /\ obj' = r.w.obj
           /\ aborted' = r.w.aborted
    /\ UNCHANGED <<handlerObjects,
                   NDEBUG, finalizers, finalizationCount, frame, finalizer,
                   held, calls, constructed>>

\* The call is over: the caller has its reference or its exception.
ReturnSingleton(t) ==
    /\ ~aborted
    /\ sframe[t].pc = "done"
    /\ sframe' = [sframe EXCEPT ![t] = IdleCall]
    /\ UNCHANGED <<handlerObjects,
                   NDEBUG, heap, maxHeapSize, finalizers, heapSizeIndex,
                   newHandler, newHandlerSeen, finalizationCount, obj, frame,
                   finalizer, held, aborted, calls, constructed,
                   isConstructionValid, isInitialized, staticMutex, instance,
                   made>>

\* The Singleton test program: the collector's heap is not limited and no
\* new-handler is installed.
InitSingleton ==
    /\ NDEBUG \in BOOLEAN
    /\ heap = [a \in Addr |-> FreeBlock]
    /\ heapSizeIndex = 0
    /\ maxHeapSize = 0
    /\ finalizers = [a \in Addr |-> NoReg]
    /\ newHandler = NoHandler
    /\ newHandlerSeen = FALSE
    /\ finalizationCount = 0
    /\ obj = [a \in Addr |-> NoObject]
    /\ frame = [t \in Threads |-> IdleFrame]
    /\ finalizer = IdleFrame
    /\ held = [t \in Threads |-> {}]
    /\ aborted = FALSE
    /\ calls = 0
    /\ constructed = 0
    /\ isConstructionValid = FALSE
    /\ isInitialized = BOOST_ONCE_INIT
    /\ staticMutex = Unlocked
    /\ instance = NULL
    /\ sframe = [t \in Threads |-> IdleCall]
    /\ made = 0
    /\ handlerObjects = << >>

NextSingleton ==
    \/ \E t \in Threads : CallGetInstance(t)
    \/ \E t \in Threads, how \in {"new", "stack"} : CallConstructor(t, how)
    \/ \E t \in Threads : StepSingleton(t)
    \/ \E t \in Threads : ReturnSingleton(t)

SpecSingleton == InitSingleton /\ [][NextSingleton]_vars

\* Fair scheduling: a thread that can take a step again and again takes
\* it, and a call that is over returns.
SpecSingletonFair ==
    /\ SpecSingleton
    /\ \A t \in Threads : SF_vars(StepSingleton(t))
    /\ \A t \in Threads : WF_vars(ReturnSingleton(t))

\* C21: however the calls of getInstance interleave, at most one T is ever
\* constructed, every call that returns hands out the address stored in
\* instance, which is not null (so all calls return the same object), and
\* instance, once set, never changes.
C21_OneInstance ==
    /\ [](/\ made <= 1
          /\ instance # NULL => made = 1
          /\ \A t \in Threads :
                sframe[t].op = "getInstance" /\ sframe[t].pc = "done"
                    => /\ sframe[t].outcome = "returned"
                       /\ sframe[t].ret # NULL
                       /\ sframe[t].ret = instance)
    /\ [][instance # NULL => instance' = instance]_vars

\* Two threads called getInstance at the same time; both have returned, with
\* the same instance.
C21_Witness ==
    /\ made = 1
    /\ \A t \in Threads :
          /\ sframe[t].op = "getInstance"
          /\ sframe[t].pc = "done"
          /\ sframe[t].ret = instance
    /\ instance # NULL

\* The thread constructs a T itself, not through getInstance.
Manual(f) == f.op \in {"new", "stack"}

\* C22: a construction of T that does not come from initialize never gets
\* past the check in the constructor: it ends in SingletonException, whether
\* it runs before the instance exists, after, or while another thread is in
\* initialize; it constructs nothing (the only T ever constructed is the one
\* initialize stores), holds no lock afterwards, gives its memory back and
\* stops neither the process nor the calls of getInstance.
C22_ManualConstructionFails ==
    /\ ~aborted
    /\ \A t \in Threads :
          LET f == sframe[t]
          IN  /\ f.pc # "aborted"
              /\ Manual(f) => f.pc # "ctor_unlock"
              /\ Manual(f) /\ f.pc = "done" =>
                    /\ f.outcome = "SingletonException"
                    /\ f.ret = NULL
                    /\ staticMutex.owner # t
    /\ made = 1 =>
          \E t \in Threads :
              /\ sframe[t].op = "getInstance" \/ instance # NULL
              /\ instance = NULL => sframe[t].pc = "init_store"
    /\ made <= 1
    /\ isConstructionValid =>
          \E t \in Threads :
              /\ sframe[t].op = "getInstance"
              /\ staticMutex.owner = t
              /\ sframe[t].pc \in {"op_new", "ctor_lock", "ctor_check"}

\* new T () on one thread ended in SingletonException after it had to wait
\* for initialize, which another thread has not yet left call_once for.
C22_Witness ==
    \E t, u \in Threads :
        /\ sframe[t].op = "new"
        /\ sframe[t].pc = "done"
        /\ sframe[t].outcome = "SingletonException"
        /\ sframe[u].op = "getInstance"
        /\ sframe[u].pc = "once_done"
        /\ instance # NULL
        /\ heap[BlockOf(sframe[t].memPtr)].kind = "free"

\* C23: a call of getInstance is past call_once only when initialize has
\* completed and instance is not null; until then the callers other than the
\* one running initialize stay in call_once; assert (instance) never fails
\* and the call never returns a null instance.
C23_NoEarlyReturn ==
    \A t \in Threads :
        LET f == sframe[t]
        IN  /\ f.pc # "aborted"
            /\ f.op = "getInstance" /\ f.pc \in {"assert", "done"} =>
                  /\ isInitialized = "done"
                  /\ instance # NULL
                  /\ staticMutex.owner # t
            /\ f.op = "getInstance" /\ f.pc = "done" => f.ret # NULL
            /\ f.op = "getInstance" /\ isInitialized = "running" =>
                  \/ f.pc = "call_once"
                  \/ \A u \in Threads \ {t} :
                        sframe[u].op = "getInstance"
                            => sframe[u].pc = "call_once"

\* A thread waits in call_once while another is in initialize, the instance
\* constructed and not yet stored.
C23_Witness ==
    \E t, u \in Threads :
        /\ sframe[t].op = "getInstance"
        /\ sframe[t].pc = "call_once"
        /\ sframe[u].op = "getInstance"
        /\ sframe[u].pc = "init_store"
        /\ isInitialized = "running"
        /\ instance = NULL

\* C24: under fair scheduling every call of getInstance returns, whatever
\* the other threads do (calls of getInstance, constructions of their own):
\* the thread in initialize is not stopped by the lock it takes a second
\* time in the constructor, and the threads waiting in call_once go on when
\* initialize has completed.
C24_GetInstanceReturns ==
    \A t \in Threads :
        (sframe[t].op = "getInstance")
            ~> (sframe[t].pc = "done" /\ sframe[t].outcome = "returned")

\* The thread in initialize holds staticMutex twice, in the constructor,
\* while the other thread waits for it.
C24_Witness ==
    \E t, u \in Threads :
        /\ sframe[t].op = "getInstance"
        /\ sframe[t].pc = "ctor_check"
        /\ staticMutex = [owner |-> t, count |-> 2]
        /\ sframe[u].pc \in {"call_once", "ctor_lock"}
        /\ u # t

(***************************************************************************)
(* The retry loop under any handler.  A program may install a handler of   *)
(* its own; the loop "for (; ; )" calls it after each refusal and asks the *)
(* collector again when it returns.                                        *)
(***************************************************************************)
MaxLog == 20

AnyHandlerSlot == HandlerSlot \cup ExtraHandlers

\* The number of times nonThrowingHandler raises the heap limit: once for
\* each entry of heapSize after the first.
Supplies == Len(heapSize) - 1

\* A thread inside an allocation operator takes its next step; the model
\* follows a call for MaxLog events.
StepRetry(t) ==
    /\ Len(frame[t].log) < MaxLog
    /\ StepNew(t)

InitRetry ==
    /\ NDEBUG \in BOOLEAN
    /\ heap = [a \in Addr |-> FreeBlock]
    /\ heapSizeIndex = 0
    /\ maxHeapSize = heapSize[heapSizeIndex + 1]
    /\ finalizers = [a \in Addr |-> NoReg]
    /\ newHandler \in AnyHandlerSlot
    /\ newHandlerSeen = FALSE
    /\ finalizationCount = 0
    /\ obj = [a \in Addr |-> NoObject]
    /\ frame = [t \in Threads |-> IdleFrame]
    /\ finalizer = IdleFrame
    /\ held = [t \in Threads |-> {}]
    /\ aborted = FALSE
    /\ calls = 0
    /\ constructed = 0
    /\ isConstructionValid = FALSE
    /\ isInitialized = BOOST_ONCE_INIT
    /\ staticMutex = Unlocked
    /\ instance = NULL
    /\ sframe = [t \in Threads |-> IdleCall]
    /\ made = 0
    /\ handlerObjects = << >>

\* One thread allocates through all six operators, whatever handler the
\* program installed.
NextRetry ==
    \/ \E t \in Sequential, op \in NewOps, size \in ReqSizes,
          cls \in Classes \cup {"none"} : CallNew(t, op, size, cls)
    \/ \E t \in Sequential : StepRetry(t)
    \/ \E t \in Sequential : StepCtor(t)
    \/ \E t \in Sequential : Return(t)
    \/ \E t \in Sequential, p \in UNION {held[u] : u \in Threads} :
          OperatorDelete(t, p)

SpecRetry == InitRetry /\ [][NextRetry]_vars

\* A thread that is inside an operator keeps running.
SpecRetryFair ==
    SpecRetry /\ \A t \in Sequential : WF_vars(StepRetry(t))

\* Handlers that, each time they are called, make memory available or fail.
Supplying(h) == h \in Handlers

\* C25: every allocation call ends, after no more handler invocations than
\* the handler can supply memory, whatever handler is installed, one that
\* returns without supplying memory included.
C25_AnyHandlerBounded ==
    \A t \in Threads : Count(frame[t].log, "inv") <= Supplies + 1

\* C25, amended: under a handler that each time makes memory available or
\* fails, every allocation call ends after no more invocations than the
\* handler can supply memory (and one that fails); with no handler the
\* call makes a single attempt.
C25_SupplyingHandlerEnds ==
    /\ [](\A t \in Threads :
            /\ (\A i \in DOMAIN frame[t].log :
                   frame[t].log[i].e = "ref"
                       => Supplying(frame[t].log[i].h)
                          \/ frame[t].log[i].h = NoHandler)
                 => Count(frame[t].log, "inv") <= Supplies + 1
            /\ (\E i \in DOMAIN frame[t].log :
                   frame[t].log[i] = Ev("ref", NoHandler)
                   /\ Count(SubSeq(frame[t].log, 1, i), "ref") = 1)
                 => Count(frame[t].log, "req") = 1 /\ ~InNew(frame[t]))
    /\ \A t \in Threads :
          (InNew(frame[t]) /\ newHandler \in HandlerSlot
               /\ frame[t].handler \in HandlerSlot)
            ~> (~InNew(frame[t]) \/ aborted)

C25_Witness ==
    \E t \in Threads :
        /\ frame[t].pc = "done"
        /\ frame[t].outcome = "returned"
        /\ frame[t].var # NULL
        /\ Count(frame[t].log, "inv") >= 2


\* A handler is installed: the slot names it, or a thread holds it between
\* "handler = std::set_new_handler (0)" and "std::set_new_handler (handler)".
SomeHandlerInstalled ==
    \/ newHandler # NoHandler
    \/ \E u \in Threads : frame[u].pc = "restore"
                          /\ frame[u].handler # NoHandler

\* C26: with one handler installed throughout and no thread calling the
\* setter, no allocation reports OutOfMemory or returns null without having
\* invoked the handler, however the refused allocations interleave.
C26_HandlerAlwaysGivenItsChance ==
    \A t \in Threads :
        (SomeHandlerInstalled /\ FailedWith(frame[t], frame[t].op)
             /\ Count(frame[t].log, "ref") > 0)
          => Count(frame[t].log, "inv") > 0


(***************************************************************************)
(* Threads that change the handler while others allocate.                  *)
(***************************************************************************)
\* std::set_new_handler (h), called by a thread that is not inside an
\* allocation operator.
set_new_handler(t, h) ==
    /\ ~aborted
    /\ frame[t].pc = "idle"
    /\ calls < MaxCalls
    /\ h # newHandler
    /\ newHandler' = h
    /\ calls' = calls + 1
    /\ UNCHANGED <<SingletonVars, handlerObjects,
                   NDEBUG, heap, maxHeapSize, finalizers, heapSizeIndex,
                   newHandlerSeen, finalizationCount, obj, frame, finalizer,
                   held, aborted, constructed>>

\* The two operators that contain the retry loop, and the setter.
NextSetter ==
    \/ \E t \in Threads, op \in {"new", "Collectable_new"}, size \in ReqSizes,
          cls \in Classes \cup {"none"} : CallNew(t, op, size, cls)
    \/ \E t \in Threads : StepNew(t)
    \/ \E t \in Threads : StepCtor(t)
    \/ \E t \in Threads : Return(t)
    \/ \E t \in Threads, h \in HandlerSlot : set_new_handler(t, h)

SpecSetter == Init /\ [][NextSetter]_vars

\* The handler the last "handler = std::set_new_handler (0)" of a call gave.
LastRead(log) ==
    LET R == {i \in DOMAIN log : log[i].e = "ref"}
    IN  log[CHOOSE i \in R : \A j \in R : j <= i].h

\* C27: within one attempt the handler invoked is the handler that attempt
\* read from the slot, whatever other threads install between the read and
\* the invocation.
C27_InvokesWhatItRead ==
    \A t \in Threads :
        /\ \A i \in DOMAIN frame[t].log :
              frame[t].log[i].e = "inv"
                  => /\ i > 1
                     /\ frame[t].log[i - 1] = Ev("ref", frame[t].log[i].h)
                     /\ frame[t].log[i].h # NoHandler
        /\ frame[t].pc \in {"restore", "call"}
              => frame[t].handler = LastRead(frame[t].log)

\* An invocation made after another thread put a different handler in the
\* slot, between the restore and the call.
C27_Witness ==
    \E t \in Threads :
        /\ frame[t].log # << >>
        /\ Last(frame[t].log).e = "inv"
        /\ newHandler \notin {NoHandler, Last(frame[t].log).h}
        /\ newHandlerSeen


\* C28: the handler read after a refusal is back in the slot when it is
\* invoked, and what the handler does to the slot is what the next retry
\* reads: after a handler that removed itself the next refusal fails with
\* one invocation made, after a handler that installed another one the next
\* refusal invokes that one.
C28_SlotHoldsRunningHandler ==
    \A t \in Sequential :
        LET f == frame[t]
            n == Len(f.log)
        IN  /\ f.pc = "call" => newHandler = f.handler
            /\ \A i \in 1..n :
                  f.log[i] = Ev("inv", "removingHandler")
                      => /\ i = n => f.pc = "alloc" /\ newHandler = NoHandler
                         /\ i + 2 <= n
                               => /\ f.log[i + 2] = Ev("ref", NoHandler)
                                  /\ n = i + 2
                                  /\ FailedWith(f, f.op)
                                  /\ f.thrower = "operator"
                                  /\ Count(f.log, "inv") = 1
            /\ \A i \in 1..n :
                  f.log[i] = Ev("inv", "switchingHandler")
                      => /\ i = n => f.pc = "alloc"
                                     /\ newHandler = "throwingHandler"
                         /\ i + 2 <= n
                               => f.log[i + 2] = Ev("ref", "throwingHandler")
                         /\ i + 3 <= n
                               => f.log[i + 3] = Ev("inv", "throwingHandler")

C28_Witness ==
    \E t \in Sequential :
        /\ FailedWith(frame[t], frame[t].op)
        /\ frame[t].log = <<Ev("req", NoHandler), Ev("ref", "removingHandler"),
                            Ev("inv", "removingHandler"), Ev("req", NoHandler),
                            Ev("ref", NoHandler)>>


\* C29: with one thread and a handler that leaves the slot alone, every
\* allocation operator leaves the installed handler as it found it on every
\* exit, success, null and OutOfMemory alike: the next refused allocation
\* reads the same handler and invokes it again, and an empty slot stays
\* empty.
C29_HandlerUnchangedOnExit ==
    /\ \A t \in Sequential :
          (frame[t].op \in NewOps /\ ~InNew(frame[t]) /\ ~aborted
               /\ Count(frame[t].log, "ref") > 0)
            => newHandler = frame[t].log[2].h
    /\ Quiet =>
          \A c \in AllocCases :
              LET r == RunCase(c)
                  q == RunNew(NewExpr(c[1], c[2], c[3]), r.w)
              IN  (~r.w.aborted /\ ~InNew(r.f))
                    => /\ r.w.newHandler = newHandler
                       /\ FailedWith(r.f, c[1])
                             => /\ Len(q.f.log) >= 2
                                /\ q.f.log[2] = Ev("ref", newHandler)
                                /\ newHandler # NoHandler
                                      => /\ Len(q.f.log) >= 3
                                         /\ q.f.log[3] = Ev("inv", newHandler)

\* OutOfMemory raised by the handler, the handler still installed.
C29_Witness ==
    \E t \in Sequential :
        /\ FailedWith(frame[t], frame[t].op)
        /\ frame[t].op \in NewOps
        /\ frame[t].thrower = "handler"
        /\ newHandler = "throwingHandler"
        /\ ~aborted


\* C30: the not-supported error of an array operator of Collectable reaches
\* the caller as that error, which the caller can catch: it is neither
\* OutOfMemory nor the end of the process.
C30_NotSupportedReachesCaller ==
    \A t \in Sequential :
        (frame[t].op \in ClassArrayOps /\ frame[t].pc # "idle")
            => /\ frame[t].outcome \notin {"terminate", "bad_alloc"}
               /\ frame[t].pc = "done" => frame[t].outcome = Thrown(frame[t].op)
               /\ aborted = FALSE


(***************************************************************************)
(* C31 .. C35: release and registration of collectable instances.          *)
(***************************************************************************)
\* C31: Collectable::operator delete, in both forms, is the one release of
\* the memory of a deleted instance: it acts on a block that is still
\* allocated, it releases that block and touches nothing else, and once the
\* block is released the collector neither calls a finalizer for it nor
\* reclaims it.
C31_OneReleasePath ==
    /\ \A t \in Threads :
          frame[t].op = "delete" /\ frame[t].pc = "op_delete" =>
              LET a == BlockOf(frame[t].memPtr)
              IN  /\ heap[a].kind = "col"
                  /\ \A op \in ClassDeleteOps :
                        DeleteOp(op, frame[t].memPtr, World)
                            = [World EXCEPT !.heap[a] = FreeBlock]
    /\ \A a \in Addr :
          obj[a].del =>
              /\ ~ENABLED GC_invoke_finalizer(a)
              /\ ~ENABLED GC_reclaim(a)
              /\ finalizer.pc # "idle" => BlockOf(finalizer.this) # a
              /\ heap[a] = FreeBlock => finalizers[a] = NoReg

\* One instance was deleted and its block released; the collector has since
\* finalized and reclaimed another one.
C31_Witness ==
    \E a, b \in Addr :
        /\ a # b
        /\ obj[a].del /\ heap[a] = FreeBlock
        /\ ~obj[b].del /\ obj[b].st = "dead" /\ heap[b] = FreeBlock


\* C32: no finalizer is registered for the base address of a block that has
\* been released, by a delete-expression (Collectable::~Collectable removed
\* the registration before Collectable::operator delete freed the memory) or
\* by the collector (which consumed the registration when it called the
\* finalizer, before it reclaimed the block).
C32_NoRegistrationOnReleasedMemory ==
    \A a \in Addr : heap[a] = FreeBlock => finalizers[a] = NoReg

\* Both kinds of release have happened: one instance was deleted, another
\* finalized and reclaimed by the collector, and neither block is in use.
C32_Witness ==
    \E a, b \in Addr :
        /\ heap[a] = FreeBlock /\ obj[a].del /\ obj[a].runs = 1
        /\ heap[b] = FreeBlock /\ ~obj[b].del /\ obj[b].runs = 1
        /\ finalizers[a] = NoReg /\ finalizers[b] = NoReg
        /\ constructed = 2


\* C33: an instance allocated by Collectable::operator new that holds
\* another Collectable by value keeps, through the construction and the
\* destruction of that member, the registration that leads back to itself,
\* so that the collector runs its whole destructor chain, once.
C33_EnclosingRegistrationKept ==
    \A a \in Addr :
        obj[a].cls = "Enclosing" /\ ~obj[a].del =>
            /\ heap[a].kind = "col" /\ obj[a].st = "live"
                 /\ (finalizer.pc # "idle" => BlockOf(finalizer.this) # a)
                  => finalizers[a] =
                         [fn |-> "cleanup", cd |-> SubOff("Enclosing", "self")]
            /\ obj[a].mruns = 1 => obj[a].st \in {"dying", "dead"}
            /\ heap[a] = FreeBlock => obj[a].runs = 1 /\ obj[a].mruns = 1


(***************************************************************************)
(* Copy construction.                                                      *)
(***************************************************************************)
\* q = new T (*p), p pointing to a live instance of T in the collectable
\* heap: Collectable::operator new, then the copy constructors.
CallNewCopy(t, op, p) ==
    /\ ~aborted
    /\ frame[t].pc = "idle"
    /\ calls < MaxCalls
    /\ op \in ClassNewOps
    /\ p \in held[t]
    /\ heap[BlockOf(p)].kind = "col"
    /\ obj[BlockOf(p)].st = "live"
    /\ Cardinality(FreeAddrs(heap))
          > Cardinality({u \in Threads : InNew(frame[u])})
    /\ LET cls == obj[BlockOf(p)].cls
       IN  frame' = [frame EXCEPT ![t] =
                        [NewExpr(op, SizeOf(cls), cls) EXCEPT !.arg = p]]
    /\ calls' = calls + 1
    /\ UNCHANGED <<WorldVars, finalizer, held>>

\* MyCollectable copy (*p); declared in a block scope.
EnterScopeCopy(t, p) ==
    /\ ~aborted
    /\ frame[t].pc = "idle"
    /\ calls < MaxCalls
    /\ p \in held[t]
    /\ heap[BlockOf(p)].kind = "col"
    /\ obj[BlockOf(p)].cls = "MyCollectable"
    /\ obj[BlockOf(p)].st = "live"
    /\ frame' = [frame EXCEPT ![t] =
                    [IdleFrame EXCEPT !.pc = "scope_ctor", !.op = "scope",
                                      !.cls = "MyCollectable",
                                      !.this = StackAddr(t), !.arg = p]]
    /\ calls' = calls + 1
    /\ UNCHANGED <<WorldVars, finalizer, held>>

\* Threads create instances, copy them into the collectable heap and onto
\* the stack, and forget them, while the collector finalizes and reclaims.
NextCopy ==
    \/ \E t \in Threads, op \in ClassNewOps, cls \in Classes :
          CallNew(t, op, SizeOf(cls), cls)
    \/ \E t \in Threads, op \in ClassNewOps,
          p \in UNION {held[u] : u \in Threads} : CallNewCopy(t, op, p)
    \/ \E t \in Threads, p \in UNION {held[u] : u \in Threads} :
          EnterScopeCopy(t, p)
    \/ \E t \in Threads : StepNew(t)
    \/ \E t \in Threads : StepCtor(t)
    \/ \E t \in Threads : StepScope(t)
    \/ \E t \in Threads : Return(t)
    \/ \E t \in Threads, p \in UNION {held[u] : u \in Threads} : DropRef(t, p)
    \/ \E a \in Addr : GC_invoke_finalizer(a)
    \/ StepFinalizer
    \/ \E a \in Addr : GC_reclaim(a)

SpecCopy == Init /\ [][NextCopy]_vars

\* The registration Collectable::initialize makes for the sub-object at
\* address this.
RegistrationOf(this) ==
    [fn |-> "cleanup", cd |-> this - BlockOf(this) * BlockSpan]

\* C34: a copy constructor of Collectable that runs in the collectable heap
\* registers the finalizer for the base address of the new instance and
\* changes no other registration, that of the source included; one that
\* runs on the stack changes no registration at all.
C34_CopyRegistersItsOwn ==
    \A t \in Threads :
        LET f == frame[t]
        IN  /\ InCtor(f) /\ f.arg # NULL /\ f.cls \in Classes =>
                  LET a == BlockOf(f.memPtr)
                      sub == IF f.pc = "ctor_base" THEN "self" ELSE "member"
                      r == CtorStep(f, World)
                  IN  /\ a # BlockOf(f.arg)
                      /\ r.w.finalizers =
                            [finalizers EXCEPT ![a] =
                                RegistrationOf(f.memPtr + SubOff(f.cls, sub))]
                      /\ r.w.finalizers[BlockOf(f.arg)]
                            = finalizers[BlockOf(f.arg)]
                      /\ r.w.heap = heap
            /\ f.pc = "scope_ctor" /\ f.arg # NULL =>
                  ScopeStep(f, World).w = World
            /\ (f.pc = "done" /\ f.arg # NULL /\ f.cls = "MyCollectable"
                    /\ f.op \in ClassNewOps /\ f.var # NULL) =>
                  /\ finalizers[BlockOf(f.var)]
                        = RegistrationOf(f.var + SubOff(f.cls, "self"))
                  /\ finalizers[BlockOf(f.arg)]
                        = RegistrationOf(f.arg + SubOff(f.cls, "self"))

\* A MyCollectable was copied into the collectable heap: source and copy
\* are live in two blocks, each registered with its own base address.
C34_Witness ==
    \E t \in Threads :
        /\ frame[t].pc = "done"
        /\ frame[t].op \in ClassNewOps
        /\ frame[t].arg # NULL
        /\ frame[t].var # NULL
        /\ BlockOf(frame[t].var) # BlockOf(frame[t].arg)
        /\ obj[BlockOf(frame[t].var)].st = "live"
        /\ obj[BlockOf(frame[t].arg)].st = "live"
        /\ finalizers[BlockOf(frame[t].var)].fn = "cleanup"
        /\ finalizers[BlockOf(frame[t].arg)].fn = "cleanup"


\* C35: the offset Collectable::initialize registers is the address of the
\* sub-object minus the base the collector reports, never negative, and
\* Collectable::cleanup, given that base and that offset, rebuilds the
\* address of the sub-object that registered: the finalizer destroys the
\* object it was registered by.
C35_OffsetRoundTrip ==
    /\ \A this \in AnyAddress :
          LET base == GC_base(heap, this)
          IN  base # NULL =>
                 LET reg == initialize(this, World).finalizers[BlockOf(base)]
                 IN  /\ reg.fn = "cleanup"
                     /\ PtrToOffset(reg.cd) = this - base
                     /\ PtrToOffset(reg.cd) >= 0
                     /\ cleanup(base, reg.cd) = this
    /\ \A a \in Addr :
          finalizers[a] # NoReg /\ heap[a].kind # "free" =>
              /\ PtrToOffset(finalizers[a].cd) \in 0 .. BlockSpan - 1
              /\ obj[a].st # "raw" =>
                    SubAt(obj[a], a, cleanup(a * BlockSpan, finalizers[a].cd))
                        # "none"
    /\ finalizer.pc # "idle" =>
          /\ finalizer.sub # "none"
          /\ finalizer.this
                = BlockOf(finalizer.this) * BlockSpan
                  + SubOff(finalizer.cls, finalizer.sub)

\* The collector called the finalizer of a MyCollectable, whose Collectable
\* part lies at a non-zero offset of its block: cleanup rebuilt its address
\* and the destructor chain of the instance runs.
C35_Witness ==
    /\ finalizer.pc \in {"dtor_body", "dtor_base"}
    /\ finalizer.cls = "MyCollectable"
    /\ finalizer.sub = "self"
    /\ finalizer.this = BlockOf(finalizer.this) * BlockSpan + 1
    /\ heap[BlockOf(finalizer.this)].kind = "col"


(***************************************************************************)
(* C36                                                                     *)
(***************************************************************************)
\* C36: isConstructionValid is false whenever staticMutex is not held; it is
\* true only while the thread that runs initialize holds the mutex, from the
\* statement that sets it to the constructor's statement that clears it, and
\* it is false from then on, when initialize finishes included.
C36_FlagOnlyUnderMutex ==
    /\ staticMutex = Unlocked => ~isConstructionValid
    /\ isConstructionValid =>
          /\ staticMutex.owner \in Threads
          /\ sframe[staticMutex.owner].op = "getInstance"
          /\ sframe[staticMutex.owner].pc
                \in {"op_new", "ctor_lock", "ctor_check", "aborted"}
          /\ instance = NULL
          /\ made = 0
    /\ handlerObjects = << >>
    /\ \A t \in Threads :
          sframe[t].op = "getInstance"
            /\ sframe[t].pc \in {"ctor_unlock", "init_store", "init_assert",
                                 "init_unlock", "once_done"}
              => /\ ~isConstructionValid
                 /\ sframe[t].pc # "once_done" => staticMutex.owner = t
    /\ isInitialized \notin {BOOST_ONCE_INIT, "running"} => ~isConstructionValid

\* The sanctioned construction is under way: initialize has set the flag
\* and the constructor, which locked the mutex a second time, is about to
\* test it.
C36_Witness ==
    /\ isConstructionValid
    /\ staticMutex.count = 2
    /\ \E t \in Threads : sframe[t].pc = "ctor_check"
                          /\ sframe[t].op = "getInstance"


(***************************************************************************)
(* The NewHandler class of the test suite: its constructor installs a      *)
(* handler, its destructor puts back the one it found.  Instances are      *)
(* variables of block scope, destroyed in the reverse order of their       *)
(* construction.                                                           *)
(***************************************************************************)
MaxDepth == 2

Type == {"newHandlerThrow", "newHandlerNoThrow"}

\* type == newHandlerThrow? throwingHandler: nonThrowingHandler
HandlerOfType(type) ==
    IF type = "newHandlerThrow" THEN "throwingHandler"
    ELSE "nonThrowingHandler"

\* NewHandler::NewHandler (Type type): S is the sequence of instances in
\* scope.
NewHandlerCtor(type, S, w) ==
    [S |-> Append(S, [type |-> type, originalHandler |-> w.newHandler]),
     w |-> [w EXCEPT !.newHandlerSeen = FALSE,
                     !.newHandler = HandlerOfType(type)]]

\* A destructor that leaves no handler installed.
NewHandlerDtor_Clears(S, w) ==
    [S |-> SubSeq(S, 1, Len(S) - 1),
     w |-> [w EXCEPT !.newHandler = NoHandler]]

\* NewHandler::~NewHandler, on the innermost instance.
NewHandlerDtor(S, w) ==
    [S |-> SubSeq(S, 1, Len(S) - 1),
     w |-> [w EXCEPT !.newHandler = S[Len(S)].originalHandler]]

\* The thread reaches the declaration "NewHandler handler (type);".
ConstructNewHandler(t, type) ==
    /\ ~aborted
    /\ frame[t].pc = "idle"
    /\ Len(handlerObjects) < MaxDepth
    /\ LET r == NewHandlerCtor(type, handlerObjects, World)
       IN  /\ handlerObjects' = r.S
           /\ newHandler' = r.w.newHandler
           /\ newHandlerSeen' = r.w.newHandlerSeen
    /\ UNCHANGED <<SingletonVars,
                   NDEBUG, heap, maxHeapSize, finalizers, heapSizeIndex,
                   finalizationCount, obj, frame, finalizer, held, aborted,
                   calls, constructed>>

\* The thread leaves the scope of the innermost NewHandler.
DestroyNewHandler(t) ==
    /\ ~aborted
    /\ frame[t].pc = "idle"
    /\ handlerObjects # << >>
    /\ LET r == NewHandlerDtor(handlerObjects, World)
       IN  /\ handlerObjects' = r.S
           /\ newHandler' = r.w.newHandler
    /\ UNCHANGED <<SingletonVars,
                   NDEBUG, heap, maxHeapSize, finalizers, heapSizeIndex,
                   newHandlerSeen, finalizationCount, obj, frame, finalizer,
                   held, aborted, calls, constructed>>

\* The program starts with no new-handler installed.
InitScoped == Init /\ newHandler = NoHandler

\* One thread opens and closes NewHandler scopes and allocates, with and
\* without success, in between.
NextScoped ==
    \/ \E t \in Sequential, type \in Type : ConstructNewHandler(t, type)
    \/ \E t \in Sequential : DestroyNewHandler(t)
    \/ \E t \in Sequential, op \in NewOps, size \in ReqSizes,
          cls \in Classes \cup {"none"} : CallNew(t, op, size, cls)
    \/ \E t \in Sequential : StepNew(t)
    \/ \E t \in Sequential : StepCtor(t)
    \/ \E t \in Sequential : Return(t)
    \/ \E t \in Sequential, p \in UNION {held[u] : u \in Threads} :
          OperatorDelete(t, p)

SpecScoped == InitScoped /\ [][NextScoped]_vars

\* The handler that is installed while the first n instances are in scope.
InstalledUnder(n) ==
    IF n = 0 THEN NoHandler ELSE HandlerOfType(handlerObjects[n].type)

\* C37: the constructor of NewHandler installs the handler chosen and keeps
\* the one it found; after the destructor the handler installed is the one
\* that was installed before the constructor, whatever allocations,
\* succeeding or failing, came in between; nested instances restore in the
\* reverse order of their construction.
C37_ScopedHandlerRestored ==
    /\ \A i \in DOMAIN handlerObjects :
          handlerObjects[i].originalHandler = InstalledUnder(i - 1)
    /\ (\A t \in Threads : frame[t].pc # "restore")
          => newHandler = InstalledUnder(Len(handlerObjects))
    /\ (\A t \in Threads : frame[t].pc = "idle") /\ ~aborted =>
          /\ \A type \in Type :
                LET c == NewHandlerCtor(type, handlerObjects, World)
                    d == NewHandlerDtor(c.S, c.w)
                IN  /\ c.w.newHandler = HandlerOfType(type)
                    /\ c.S[Len(c.S)].originalHandler = newHandler
                    /\ d.w.newHandler = newHandler
                    /\ d.S = handlerObjects
          /\ handlerObjects # << >> =>
                NewHandlerDtor(handlerObjects, World).w.newHandler
                    = InstalledUnder(Len(handlerObjects) - 1)

\* Two nested instances are in scope, the program's two allocations are
\* over, one of them failed and the handler ran: the inner destructor is
\* next.
C37_Witness ==
    /\ Len(handlerObjects) = 2
    /\ handlerObjects[1].type # handlerObjects[2].type
    /\ calls = MaxCalls
    /\ newHandlerSeen
    /\ ~aborted
    /\ \A t \in Threads : frame[t].pc = "idle"

====
